---- MODULE Spec2Model ----
(***************************************************************************)
(* Run Engine (src/unnamed/part_002, class RunEngine): trigger,            *)
(* dequeueFromMasterQueue, #completeWaitpoint, #continueRun and the        *)
(* delayed-job handlers, over the relational store (Prisma), the Redis run *)
(* queue, the Redis delayed-job worker and the Redlock run locks.          *)
(*                                                                         *)
(* Engine calls run on NumProcs concurrent callers; every step of a call   *)
(* is one awaited store operation (or several that no other call can tell  *)
(* apart).  Rows written through a caller-supplied transaction client      *)
(* (the optional tx parameter) carry the caller's id in their tx field     *)
(* until the transaction commits; rows with tx = 0 are committed.          *)
(* Time is counted in minutes.                                             *)
(*                                                                         *)
(* Managed run controller (managed-run-controller.ts, class                *)
(* ManagedRunController): the runner's phases, its two locks, its child    *)
(* task process and its pending awaits, in the variable controller.  The   *)
(* engine specifications leave the controller as constructed; the          *)
(* controller specifications leave the engine as constructed.              *)
(***************************************************************************)
EXTENDS Integers, Sequences, FiniteSets, TLC

\* ------------------------------------------------------------------ bounds
MaxRuns == 2

NumProcs == 2

MaxTime == 1

\* ------------------------------------------------------- program constants
\* RunQueue option defaultEnvConcurrency
defaultEnvConcurrency == 10

\* #createExecutionSnapshot: intervalSeconds 60, in minutes
intervalQueued == 1

\* #createExecutionSnapshot: intervalSeconds 60 * 15, in minutes
intervalExecuting == 15

\* ------------------------------------------------------------------- state
VARIABLES
  runs,          \* TaskRun rows: run id -> row
  snapshots,     \* TaskRunExecutionSnapshot rows per run, in createdAt order
  waitpoints,    \* Waitpoint rows: waitpoint id -> row
  runWaitpoints, \* TaskRunWaitpoint rows
  taskQueues,    \* TaskQueue rows: queue name -> <<>> (no row) or <<limit>>
  nextRunId,     \* ids handed out by taskRun.create
  nextWaitpointId,
  rqQueue,       \* RunQueue: queued messages in score order
  rqInflight,    \* RunQueue: dequeued, unacknowledged messages
  rqLimits,      \* RunQueue: queue concurrency limit keys
  jobs,          \* delayed-job worker: scheduled jobs
  locks,         \* Redlock: run id -> holder (0 = free)
  now,           \* wall clock
  pc,            \* position of each caller
  call,          \* locals of each caller's current call
  controller,    \* ManagedRunController: its fields and its pending promises
  producer,      \* RunQueueShortKeyProducer: its prefix, its arguments and the keys it returned
  session        \* SupervisorSession: what start() started and what it has done since

vars == <<runs, snapshots, waitpoints, runWaitpoints, taskQueues, nextRunId,
          nextWaitpointId, rqQueue, rqInflight, rqLimits, jobs, locks, now, pc, call,
          controller, producer, session>>

engineVars == <<runs, snapshots, waitpoints, runWaitpoints, taskQueues, nextRunId,
                nextWaitpointId, rqQueue, rqInflight, rqLimits, jobs, locks, now, pc, call>>

dbVars == <<runs, snapshots, waitpoints, runWaitpoints, taskQueues, nextRunId, nextWaitpointId>>

rqVars == <<rqQueue, rqInflight, rqLimits>>

\* ------------------------------------------------------------------ values
RunIds == 1..MaxRuns

WaitpointIds == 1..(2 * MaxRuns)

Procs == 1..NumProcs

Times == 0..MaxTime

Queues == {"q1", "q2"}

Keys == {"k"}

None == <<>>

Some(x) == <<x>>

IsSome(m) == m # <<>>

The(m) == m[1]

\* QueueOptions.concurrencyLimit: absent, or a number
QueueOptionValues == {[concurrencyLimit |-> None], [concurrencyLimit |-> Some(0 - 1)], [concurrencyLimit |-> Some(1)]}

\* the ttl strings callers pass
Ttls == {"1m"}

\* the arguments of trigger that decide what it does
TriggerParamsOf(keys, queueNames, options, ttls, txs) ==
  [ idempotencyKey : {None} \cup {Some(k) : k \in keys},
    queueName : queueNames,
    queue : {None} \cup {Some(o) : o \in options},
    delayUntil : {None} \cup {Some(t) : t \in Times},
    ttl : {None} \cup {Some(t) : t \in ttls},
    parentTaskRunId : {None} \cup {Some(r) : r \in RunIds},
    resumeParentOnCompletion : BOOLEAN,
    tx : txs ]

\* calls on this.prisma, without idempotency keys; a parent is named to be
\* resumed on completion
TriggerParams ==
  {a \in TriggerParamsOf({}, Queues, QueueOptionValues, Ttls, {FALSE}) :
     a.resumeParentOnCompletion <=> IsSome(a.parentTaskRunId)}

\* calls on this.prisma with idempotency keys, on one queue
KeyedTriggerParams == TriggerParamsOf(Keys, {"q1"}, {}, {}, {FALSE})

\* calls that may hand in the caller's transaction client, on one queue
TxTriggerParams == TriggerParamsOf({}, {"q1"}, {}, {}, BOOLEAN)

\* calls of the simple scenario: no delay, no ttl, no parent, one queue
AttemptTriggerParams ==
  {a \in TriggerParamsOf({}, {"q1"}, {}, {}, {FALSE}) :
     a.delayUntil = None /\ a.parentTaskRunId = None /\ ~a.resumeParentOnCompletion}

IdleCall == [op |-> "none", run |-> 0, waitpoint |-> 0, tx |-> FALSE, tq |-> None, affected |-> {}, deleted |-> {},
             ok |-> FALSE, result |-> None]

\* --------------------------------------------------------- store helpers
\* what a client sees: this.prisma (c = 0) reads committed rows, a
\* transaction client reads committed rows and its own
Visible(row, c) == row.tx = 0 \/ row.tx = c

\* prisma = tx ?? this.prisma
Client(p, useTx) == IF useTx THEN p ELSE 0

Max(a, b) == IF a >= b THEN a ELSE b

\* ---------------------------------------------- delayed-job worker (Redis)
JobId(j) == <<j.job, j.runId, j.waitpointId, j.snapshotId>>

\* worker.enqueue: a job enqueued under an id that is already scheduled replaces it
WorkerEnqueue(js, j) == {x \in js : JobId(x) # JobId(j)} \cup {j}

\* worker.ack
WorkerAck(js, id) == {x \in js : JobId(x) # id}

\* a handler that throws: the worker puts the job back for a retry
WorkerNack(js, j) == WorkerEnqueue(js, j)

\* --------------------------------------------------------- run queue (Redis)
\* enqueueMessage: the queue is a sorted set keyed by message id, a second
\* enqueue of the same id moves the entry
EnqueueMessage(q, m) == Append(SelectSeq(q, LAMBDA x : x.runId # m.runId), m)

QueueCurrentConcurrency(inflight, q) == Cardinality({m \in inflight : m.queue = q})

EnvCurrentConcurrency(inflight) == Cardinality(inflight)

\* the queue's concurrency limit, the environment's when the queue has none
QueueLimit(limits, q) == IF IsSome(limits[q]) THEN The(limits[q]) ELSE defaultEnvConcurrency

\* updateQueueConcurrencyLimits / removeQueueConcurrencyLimits
UpdateQueueConcurrencyLimits(limits, q, n) == [limits EXCEPT ![q] = Some(n)]

RemoveQueueConcurrencyLimits(limits, q) == [limits EXCEPT ![q] = None]

\* ------------------------------------------------------------ RunEngine
\* a trigger that creates every run PENDING
AlwaysPending(delayUntil) == "PENDING"

\* trigger: const status = delayUntil ? "DELAYED" : "PENDING"
InitialStatus(delayUntil) == IF IsSome(delayUntil) THEN "DELAYED" ELSE "PENDING"

\* trigger: typeof queue.concurrencyLimit === "number" ? Math.max(0, limit) : undefined
ClampConcurrencyLimit(o) == IF IsSome(o.concurrencyLimit) THEN Some(Max(0, The(o.concurrencyLimit))) ELSE None

\* trigger: the concurrencyLimit of the TaskQueue row after the upsert;
\* taskQueue.update with concurrencyLimit undefined leaves the column as it is
UpsertTaskQueue(existing, limit) == IF IsSome(existing) /\ ~IsSome(limit) THEN The(existing) ELSE limit

\* a trigger that leaves the run queue's limits as they are
KeepQueueLimit(limits, q, limit) == limits

\* trigger: push the TaskQueue row's limit to the run queue
PushQueueLimit(limits, q, limit) ==
  IF IsSome(limit) THEN UpdateQueueConcurrencyLimits(limits, q, The(limit))
  ELSE RemoveQueueConcurrencyLimits(limits, q)

\* parseNaturalLanguageDuration: the date the duration ends at, nothing for
\* a string that is no duration
ParseNaturalLanguageDuration(ttl) == IF ttl = "1m" THEN Some(now + 1) ELSE None

\* #startHeartbeating
StartHeartbeating(js, runId, snapshotId, interval) ==
  WorkerEnqueue(js, [job |-> "heartbeatSnapshot", runId |-> runId, waitpointId |-> 0,
                     snapshotId |-> snapshotId, availableAt |-> now + interval])

\* #createExecutionSnapshot: the heartbeat (if relevant)
SnapshotHeartbeat(js, runId, snapshotId, executionStatus) ==
  IF executionStatus \in {"RUN_CREATED", "QUEUED", "BLOCKED_BY_WAITPOINTS", "FINISHED", "DEQUEUED_FOR_EXECUTION"}
  THEN StartHeartbeating(js, runId, snapshotId, intervalQueued)
  ELSE IF executionStatus = "EXECUTING"
  THEN StartHeartbeating(js, runId, snapshotId, intervalExecuting)
  ELSE js

\* a TaskRunExecutionSnapshot row; no code attaches a worker to it
SnapshotRow(runId, n, executionStatus, runStatus, c) ==
  [id |-> n, runId |-> runId, executionStatus |-> executionStatus, runStatus |-> runStatus,
   worker |-> None, tx |-> c]

\* #createExecutionSnapshot: the row it appends to the run's history
CreateExecutionSnapshot(hist, runId, runStatus, executionStatus, c) ==
  Append(hist, SnapshotRow(runId, Len(hist) + 1, executionStatus, runStatus, c))

\* findFirst where runId orderBy createdAt asc
GetOldestExecutionSnapshot(c, runId) ==
  LET seen == SelectSeq(snapshots[runId], LAMBDA s : Visible(s, c))
  IN IF Len(seen) = 0 THEN None ELSE Some(seen[1])

\* #getLatestExecutionSnapshot: findFirst where runId orderBy createdAt desc
GetLatestExecutionSnapshot(c, runId) ==
  LET seen == SelectSeq(snapshots[runId], LAMBDA s : Visible(s, c))
  IN IF Len(seen) = 0 THEN None ELSE Some(seen[Len(seen)])

\* ids that start over with every call
ReusedWaitpointId(k) == k + 1

\* waitpoint.create: the k-th row created from here gets an id no row has
FreshWaitpointId(k) == nextWaitpointId + k

\* #createRunAssociatedWaitpoint
CreateRunAssociatedWaitpoint(c, completedByTaskRunId) ==
  [type |-> "RUN", status |-> "PENDING", completedByTaskRunId |-> completedByTaskRunId,
   completedAfter |-> None, tx |-> c]

\* #createDateTimeWaitpoint: the Waitpoint row
CreateDateTimeWaitpoint(c, completedAfter) ==
  [type |-> "DATETIME", status |-> "PENDING", completedByTaskRunId |-> 0,
   completedAfter |-> Some(completedAfter), tx |-> c]

\* #createDateTimeWaitpoint: the job that completes it
DateTimeWaitpointJob(waitpointId, completedAfter) ==
  [job |-> "waitpointCompleteDateTime", runId |-> 0, waitpointId |-> waitpointId,
   snapshotId |-> 0, availableAt |-> completedAfter]

\* trigger: worker.enqueue({ job: "expireRun", payload }), no availableAt
ExpireRunJob(runId, expireAt) ==
  [job |-> "expireRun", runId |-> runId, waitpointId |-> 0, snapshotId |-> 0, availableAt |-> now]

\* the message #enqueueRun and #continueRun hand to the run queue
RunMessage(runId, queue) == [runId |-> runId, queue |-> queue]

\* trigger: if (resumeParentOnCompletion && parentTaskRunId)
BlocksParent(a) == a.resumeParentOnCompletion /\ IsSome(a.parentTaskRunId)

\* a trigger that enqueues every run
AlwaysEnqueue(row) == TRUE

\* trigger: if (!taskRun.delayUntil) enqueueRun
ShouldEnqueue(row) == ~IsSome(row.delayUntil)

\* a trigger that never delays
NeverDelay(row) == FALSE

\* trigger: if (taskRun.delayUntil) create the delay waitpoint and its TaskRunWaitpoint
ShouldDelay(row) == IsSome(row.delayUntil)

\* the TaskRun row taskRun.create writes
TaskRunRow(a, c) ==
  [status |-> InitialStatus(a.delayUntil), idempotencyKey |-> a.idempotencyKey,
   queue |-> a.queueName, delayUntil |-> a.delayUntil,
   parentTaskRunId |-> a.parentTaskRunId, resumeParentOnCompletion |-> a.resumeParentOnCompletion, tx |-> c]

AddRow(f, id, row) == [x \in DOMAIN f \cup {id} |-> IF x = id THEN row ELSE f[x]]

\* callers are interchangeable: a new call takes the lowest idle slot
Free(p) == pc[p] = "idle" /\ \A o \in Procs : o < p => pc[o] # "idle"

\* ------------------------------------------------- ManagedRunController
\* The runner (managed-run-controller.ts) is one single-threaded process:
\* every step runs one continuation from the settling of the promise it
\* awaits up to its next await, or one event handler up to its first await.
\* controller.promises holds the pending awaits with the locals of the
\* async function that waits on each.  Platform responses are inputs.

\* startAndExecuteRunAttempt invocations in one life of the runner
MaxAttempts == 2

\* the same, for a runner that is notified during its first attempt only
MaxWarmStarts == 3

\* run:notify and snapshot poll handlers in flight at once
MaxPending == 3

\* timed-out or failed fetches of one long poll that fit into totalDurationMs
TotalDuration == 2

\* Run.friendlyId
RunNames == 1..2

\* Run.attemptNumber
AttemptNumbers == 1..2

\* Snapshot.friendlyId: the run a snapshot belongs to and its number
SnapshotsOf(run) == {<<run, n>> : n \in 1..2}

\* this.snapshotFriendlyId outside the RUN phase
NoSnapshot == <<0, 0>>

\* TaskRunExecutionStatus, as switched on by handleSnapshotChange
ExecutionStatuses == {"PENDING_CANCEL", "FINISHED", "EXECUTING_WITH_WAITPOINTS", "SUSPENDED",
                      "PENDING_EXECUTING", "EXECUTING", "RUN_CREATED", "QUEUED"}

\* CompleteRunAttemptResult.attemptStatus
AttemptStatuses == {"RUN_FINISHED", "RUN_PENDING_CANCEL", "RETRY_QUEUED", "RETRY_IMMEDIATELY"}

\* TaskRunExecutionResult: ok, failed with retry params, failed without
Completions == {"ok", "retry", "failed"}

\* RunExecutionData: run, snapshot and completedWaitpoints.length
ExecutionDataOf(run) ==
  [run : {run}, attemptNumber : AttemptNumbers, snapshot : SnapshotsOf(run),
   executionStatus : ExecutionStatuses, completedWaitpoints : 0..1]

\* the controller after construction: state = { phase: "IDLE" }, both locks
\* free, no child process, both HeartbeatServices stopped, no socket yet.
\* subscribed holds the runs for which run:start has been emitted and no
\* run:stop since
NewController ==
  [life |-> "new", phase |-> "IDLE", run |-> 0, attemptNumber |-> 0, snapshot |-> NoSnapshot,
   handleSnapshotChangeLock |-> FALSE, waitForNextRunLock |-> FALSE,
   taskRunProcess |-> 0, processes |-> {},
   runHeartbeat |-> FALSE, snapshotPoller |-> FALSE, socket |-> FALSE,
   subscribed |-> {}, promises |-> {}, attempts |-> 0]

\* a pending await of an async function of the given kind
Promise(kind, at) ==
  [kind |-> kind, at |-> at, id |-> 0, run |-> 0, snapshot |-> NoSnapshot, completion |-> "",
   elapsed |-> 0]

\* the awaited promise t settles and its continuation runs
Settle(c, t) == [c EXCEPT !.promises = @ \ {t}]

\* the continuation of t suspends at its next await
Await(c, t, at) == [c EXCEPT !.promises = @ \cup {[t EXCEPT !.at = at]}]

\* an onExitRunPhase that leaves the heartbeat and the poller running
KeepsRunning(c, newRun) == c

\* onExitRunPhase: leaving the run stops the heartbeat and the poller and
\* emits run:stop for the run of this.state
OnExitRunPhase(c, newRun) ==
  IF c.phase # "RUN" \/ newRun = c.run THEN c
  ELSE [c EXCEPT !.runHeartbeat = FALSE, !.snapshotPoller = FALSE, !.subscribed = @ \ {c.run}]

\* enterRunPhase
EnterRunPhase(c, run, attemptNumber, snapshot) ==
  [OnExitRunPhase(c, run) EXCEPT !.phase = "RUN", !.run = run, !.attemptNumber = attemptNumber,
                                 !.snapshot = snapshot, !.runHeartbeat = TRUE, !.snapshotPoller = TRUE]

\* enterWarmStartPhase
EnterWarmStartPhase(c) ==
  [OnExitRunPhase(c, 0) EXCEPT !.phase = "WARM_START", !.run = 0, !.attemptNumber = 0, !.snapshot = NoSnapshot]

\* updateRunPhase throws: not in the RUN phase, another run, or a changed
\* snapshot with a changed attempt number
UpdateRunPhaseThrows(c, run, attemptNumber, snapshot) ==
  \/ c.phase # "RUN"
  \/ c.run # run
  \/ c.snapshot # snapshot /\ c.attemptNumber # attemptNumber

\* updateRunPhase when it does not throw
UpdateRunPhase(c, run, attemptNumber, snapshot) ==
  IF c.snapshot = snapshot THEN c
  ELSE [c EXCEPT !.run = run, !.attemptNumber = attemptNumber, !.snapshot = snapshot]

\* this.taskRunProcess?.kill("SIGKILL") and cleanup(true): the child process
\* the field refers to is gone
Kill(c) == [c EXCEPT !.processes = @ \ {c.taskRunProcess}]

\* a lock check that lets every caller in
NeverTaken(lock) == FALSE

\* if (this.handleSnapshotChangeLock) return
LockTaken(lock) == lock

\* finally { this.handleSnapshotChangeLock = false }
Release(c) == [c EXCEPT !.handleSnapshotChangeLock = FALSE]

\* waitForNextRun up to its first await: the lock, enterWarmStartPhase, the
\* kill of the child process; the long poll follows the kill
WaitForNextRun(c) ==
  IF c.waitForNextRunLock THEN c
  ELSE LET d == Kill(EnterWarmStartPhase([c EXCEPT !.waitForNextRunLock = TRUE]))
       IN [d EXCEPT !.promises = @ \cup {Promise("waitForNextRun", "longPoll")}]

\* startAndExecuteRunAttempt up to its first await: run:start for the run,
\* then httpClient.startRunAttempt
StartAndExecuteRunAttempt(c, run, snapshot) ==
  [c EXCEPT !.attempts = @ + 1,
            !.subscribed = @ \cup {run},
            !.promises = @ \cup {[Promise("attempt", "startRunAttempt") EXCEPT
                                    !.id = c.attempts + 1, !.run = run, !.snapshot = snapshot]}]

\* handleCompletionResult up to its first await
HandleCompletionResult(c, t, attemptStatus, attemptNumber, snapshot) ==
  IF UpdateRunPhaseThrows(c, t.run, attemptNumber, snapshot) THEN WaitForNextRun(c)
  ELSE LET d == UpdateRunPhase(c, t.run, attemptNumber, snapshot)
       IN CASE attemptStatus \in {"RUN_FINISHED", "RETRY_QUEUED"} -> WaitForNextRun(d)
            [] attemptStatus = "RUN_PENDING_CANCEL" -> d
            [] attemptStatus = "RETRY_IMMEDIATELY" ->
                 IF t.completion # "retry" THEN WaitForNextRun(d) \* throws, the caller catches
                 ELSE Await(d, t, "retrySleep")

\* handleSnapshotChange up to its first await, or to its end
HandleSnapshotChange(c, t, data) ==
  IF LockTaken(c.handleSnapshotChangeLock) THEN c
  ELSE LET l == [c EXCEPT !.handleSnapshotChangeLock = TRUE]
       IN IF l.phase # "RUN" \/ l.snapshot = data.snapshot THEN Release(l)
          ELSE IF UpdateRunPhaseThrows(l, data.run, data.attemptNumber, data.snapshot)
          THEN Release(WaitForNextRun(l))
          ELSE LET u == UpdateRunPhase(l, data.run, data.attemptNumber, data.snapshot)
                   w == [t EXCEPT !.snapshot = data.snapshot]
               IN CASE data.executionStatus = "PENDING_CANCEL" -> Await(u, w, "cancelAttempt")
                    [] data.executionStatus = "EXECUTING_WITH_WAITPOINTS" -> Await(u, w, "suspendCleanup")
                    [] data.executionStatus = "SUSPENDED" -> Release(WaitForNextRun(u))
                    [] data.executionStatus = "PENDING_EXECUTING" /\ data.completedWaitpoints > 0 ->
                         Await(u, w, "reconnectSleep")
                    [] OTHER -> Release(u)

\* ------------------------------------------------ RunQueueShortKeyProducer
\* A string is a sequence of atoms: the separator ":", the line feed "\n" and
\* words that contain neither. The words of `constants` are atoms of their own,
\* so a pattern of the code matches a string of the model exactly where it
\* matches the string the atoms spell.
MaxQueueLen == 4
MaxKeyLen == 2

Atoms == {"a", ":", "ck", "\n"}

constants ==
  [SHARED_QUEUE |-> <<"sharedQueue">>,
   CURRENT_CONCURRENCY_PART |-> <<"currentConcurrency">>,
   CONCURRENCY_LIMIT_PART |-> <<"concurrency">>,
   DISABLED_CONCURRENCY_LIMIT_PART |-> <<"disabledConcurrency">>,
   ENV_PART |-> <<"env">>,
   ENV_TYPE_PART |-> <<"envType">>,
   ORG_PART |-> <<"org">>,
   PROJECT_PART |-> <<"proj">>,
   QUEUE_PART |-> <<"queue">>,
   CONCURRENCY_KEY_PART |-> <<"ck">>]

\* Array.prototype.join(":")
RECURSIVE join(_)
join(parts) ==
  IF parts = <<>> THEN <<>>
  ELSE IF Len(parts) = 1 THEN parts[1]
  ELSE parts[1] \o <<":">> \o join(Tail(parts))

\* String.prototype.split(":")
RECURSIVE split(_)
split(s) ==
  IF \A i \in 1..Len(s) : s[i] # ":" THEN <<s>>
  ELSE LET i == CHOOSE k \in 1..Len(s) : s[k] = ":" /\ \A j \in 1..(k - 1) : s[j] # ":"
       IN  <<SubSeq(s, 1, i - 1)>> \o split(SubSeq(s, i + 1, Len(s)))

\* /:ck:.+$/ matches at position i: ":ck:", then one character or more up to
\* the end of the string, none of them a line terminator
MatchesAt(s, i) ==
  /\ i + 3 <= Len(s)
  /\ s[i] = ":" /\ s[i + 1] = "ck" /\ s[i + 2] = ":"
  /\ \A j \in (i + 3)..Len(s) : s[j] # "\n"

\* queue.replace(/:ck:.+$/, "")
StripConcurrencyKey(queue) ==
  IF \E i \in 1..Len(queue) : MatchesAt(queue, i)
    THEN LET i == CHOOSE k \in 1..Len(queue) :
                    MatchesAt(queue, k) /\ \A j \in 1..(k - 1) : ~MatchesAt(queue, j)
         IN  SubSeq(queue, 1, i - 1)
    ELSE queue

envKeySection(envId) == constants.ENV_PART \o <<":">> \o envId

\* an absent concurrency key and the empty one are both falsy: <<>>
queueKey(env, queue, concurrencyKey) ==
  LET envTypeKeySection(envType) ==
        constants.ENV_TYPE_PART \o <<":">> \o (IF envType = "DEVELOPMENT" THEN <<"dev">> ELSE <<"deployed">>)
      projKeySection(projId) == constants.PROJECT_PART \o <<":">> \o projId
      orgKeySection(orgId) == constants.ORG_PART \o <<":">> \o orgId
      queueSection(q) == constants.QUEUE_PART \o <<":">> \o q
      concurrencyKeySection(ck) == constants.CONCURRENCY_KEY_PART \o <<":">> \o ck
  IN  join(<<orgKeySection(env.organizationId), projKeySection(env.projectId),
             envTypeKeySection(env.type), envKeySection(env.id), queueSection(queue)>>
           \o (IF concurrencyKey # <<>> THEN <<concurrencyKeySection(concurrencyKey)>> ELSE <<>>))

queueConcurrencyLimitKey(env, queue) ==
  join(<<queueKey(env, queue, <<>>), constants.CONCURRENCY_LIMIT_PART>>)

envConcurrencyLimitKey(env) == join(<<envKeySection(env.id), constants.CONCURRENCY_LIMIT_PART>>)

currentConcurrencyKey(env, queue, concurrencyKey) ==
  join(<<queueKey(env, queue, concurrencyKey), constants.CURRENT_CONCURRENCY_PART>>)

envCurrentConcurrencyKey(env) ==
  join(<<envKeySection(env.id), constants.CURRENT_CONCURRENCY_PART>>)

\* queue.startsWith(prefix) ? queue.slice(prefix.length) : queue
normalizeQueue(prefix, queue) ==
  IF Len(prefix) <= Len(queue) /\ SubSeq(queue, 1, Len(prefix)) = prefix
    THEN SubSeq(queue, Len(prefix) + 1, Len(queue))
    ELSE queue

\* At(parts, i) is parts[i] of the JavaScript array inside a template string
extractComponentsFromQueue(prefix, queue) ==
  LET parts == split(normalizeQueue(prefix, queue))
      At(ps, i) == IF i + 1 <= Len(ps) THEN ps[i + 1] ELSE <<"undefined">>
  IN  [orgId |-> At(parts, 1), projectId |-> At(parts, 3), envType |-> At(parts, 5),
       envId |-> At(parts, 7), queue |-> At(parts, 9)]

concurrencyLimitKeyFromQueue(queue) ==
  StripConcurrencyKey(queue) \o <<":">> \o constants.CONCURRENCY_LIMIT_PART

currentConcurrencyKeyFromQueue(queue) == queue \o <<":">> \o constants.CURRENT_CONCURRENCY_PART

envConcurrencyLimitKeyFromQueue(prefix, queue) ==
  constants.ENV_PART \o <<":">> \o extractComponentsFromQueue(prefix, queue).envId
    \o <<":">> \o constants.CONCURRENCY_LIMIT_PART

envCurrentConcurrencyKeyFromQueue(prefix, queue) ==
  constants.ENV_PART \o <<":">> \o extractComponentsFromQueue(prefix, queue).envId
    \o <<":">> \o constants.CURRENT_CONCURRENCY_PART

\* a producer and the arguments of the calls made on it; no key produced yet
NewProducer(prefix, env, queue, concurrencyKey) ==
  [prefix |-> prefix, env |-> env, queue |-> queue, concurrencyKey |-> concurrencyKey,
   key |-> <<>>, called |-> "", returned |-> <<>>]

\* --------------------------------------------------- SupervisorSession
\* The supervisor's session (eventBus.ts) owns a RunQueueConsumer, a
\* HeartbeatService and, once started, a socket.  The record counts what
\* each of them has done, up to a bound.

\* dequeue requests of the queue consumer in one life of the session
MaxDequeues == 3

\* messages in one dequeue response
MaxBatch == 2

\* worker heartbeats in one life of the session
MaxBeats == 2

\* run:notify events received in one life of the session
MaxNotifications == 1

\* the session after construction: consumer and heartbeat service created
\* and not started, no socket
NewSession ==
  [life |-> "new", queueConsumer |-> FALSE, heartbeatService |-> FALSE, socket |-> "none",
   dequeues |-> 0, runQueueMessages |-> 0, heartbeats |-> 0, runNotifications |-> 0]

\* ------------------------------------------------------------------ Init
Init ==
  /\ runs = <<>>
  /\ snapshots = [r \in RunIds |-> <<>>]
  /\ waitpoints = <<>>
  /\ runWaitpoints = {}
  /\ taskQueues = [q \in Queues |-> None]
  /\ nextRunId = 1
  /\ nextWaitpointId = 1
  /\ rqQueue = <<>>
  /\ rqInflight = {}
  /\ rqLimits = [q \in Queues |-> None]
  /\ jobs = {}
  /\ locks = [r \in RunIds |-> 0]
  /\ now = 0
  /\ pc = [p \in Procs |-> "idle"]
  /\ call = [p \in Procs |-> IdleCall]
  /\ controller = NewController
  /\ producer = NewProducer(<<>>, [organizationId |-> <<"o1">>, projectId |-> <<"p1">>,
                                   type |-> "PRODUCTION", id |-> <<"e1">>], <<"a">>, <<>>)
  /\ session = NewSession

\* --------------------------------------------------------------- trigger
\* trigger, up to its first point another call can observe: taskRun.create
\* with the nested RUN_CREATED snapshot, the lock on the new run,
\* the associated waitpoint, the parent block, the queue options, then
\* either the delay waitpoint with its job, or the expireRun job and #enqueueRun
TriggerStart(p, a) ==
  /\ Free(p)
  /\ nextRunId <= MaxRuns
  /\ IsSome(a.parentTaskRunId) => The(a.parentTaskRunId) < nextRunId
  /\ IsSome(a.delayUntil) => The(a.delayUntil) >= now
  /\ LET r == nextRunId
         c == Client(p, a.tx)
         row == TaskRunRow(a, c)
         wR == FreshWaitpointId(0)
         wD == FreshWaitpointId(1)
         hist1 == <<SnapshotRow(r, 1, "RUN_CREATED", row.status, c)>>
         wps1 == AddRow(waitpoints, wR, CreateRunAssociatedWaitpoint(c, r))
         limit == IF IsSome(a.queue)
                  THEN UpsertTaskQueue(taskQueues[a.queueName], ClampConcurrencyLimit(The(a.queue)))
                  ELSE None
         expire == IF IsSome(a.ttl) THEN ParseNaturalLanguageDuration(The(a.ttl)) ELSE None
         jobs1 == IF IsSome(expire) THEN WorkerEnqueue(jobs, ExpireRunJob(r, The(expire))) ELSE jobs
         hist2 == CreateExecutionSnapshot(hist1, r, row.status, "QUEUED", c)
     IN /\ runs' = AddRow(runs, r, row)
        /\ nextRunId' = r + 1
        /\ IF BlocksParent(a)
           THEN \* #blockRunWithWaitpoint throws, the lock is released
                /\ snapshots' = [snapshots EXCEPT ![r] = hist1]
                /\ waitpoints' = wps1
                /\ nextWaitpointId' = nextWaitpointId + 1
                /\ pc' = [pc EXCEPT ![p] = IF a.tx THEN "tx_rollback" ELSE "idle"]
                /\ call' = [call EXCEPT ![p] = IF a.tx THEN [IdleCall EXCEPT !.op = "trigger", !.run = r, !.tx = TRUE] ELSE IdleCall]
                /\ UNCHANGED <<runWaitpoints, taskQueues, rqVars, jobs, locks>>
           ELSE /\ locks' = [locks EXCEPT ![r] = p]
                /\ rqLimits' = IF IsSome(a.queue) THEN PushQueueLimit(rqLimits, a.queueName, limit) ELSE rqLimits
                /\ taskQueues' = IF IsSome(a.queue) /\ ~a.tx THEN [taskQueues EXCEPT ![a.queueName] = Some(limit)] ELSE taskQueues
                /\ call' = [call EXCEPT ![p] = [IdleCall EXCEPT !.op = "trigger", !.run = r, !.tx = a.tx,
                                                  !.waitpoint = IF ShouldDelay(row) THEN wD ELSE 0,
                                                  !.tq = IF IsSome(a.queue) /\ a.tx THEN Some(<<a.queueName, limit>>) ELSE None]]
                /\ UNCHANGED <<runWaitpoints, rqInflight>>
                /\ IF ShouldDelay(row)
                   THEN /\ waitpoints' = AddRow(wps1, wD, CreateDateTimeWaitpoint(c, The(row.delayUntil)))
                        /\ nextWaitpointId' = nextWaitpointId + 2
                        /\ jobs' = WorkerEnqueue(jobs, DateTimeWaitpointJob(wD, The(row.delayUntil)))
                        /\ snapshots' = [snapshots EXCEPT ![r] = hist1]
                        /\ rqQueue' = rqQueue
                        /\ pc' = [pc EXCEPT ![p] = "t_block_self"]
                   ELSE /\ waitpoints' = wps1
                        /\ nextWaitpointId' = nextWaitpointId + 1
                        /\ IF ShouldEnqueue(row)
                           THEN /\ snapshots' = [snapshots EXCEPT ![r] = hist2]
                                /\ jobs' = SnapshotHeartbeat(jobs1, r, 2, "QUEUED")
                                /\ rqQueue' = EnqueueMessage(rqQueue, RunMessage(r, row.queue))
                           ELSE /\ snapshots' = [snapshots EXCEPT ![r] = hist1]
                                /\ jobs' = jobs1
                                /\ rqQueue' = rqQueue
                        /\ pc' = [pc EXCEPT ![p] = "t_release"]
  /\ UNCHANGED now
  /\ UNCHANGED <<controller, producer, session>>

\* trigger: prisma.taskRunWaitpoint.create for the delay waitpoint, then
\* if (!taskRun.delayUntil) #enqueueRun
TriggerBlockSelf(p) ==
  /\ pc[p] = "t_block_self"
  /\ LET r == call[p].run
         c == Client(p, call[p].tx)
     IN /\ runWaitpoints' = runWaitpoints \cup
              {[taskRunId |-> r, waitpointId |-> call[p].waitpoint, tx |-> c]}
        /\ IF ShouldEnqueue(runs[r])
           THEN /\ snapshots' = [snapshots EXCEPT ![r] = CreateExecutionSnapshot(snapshots[r], r, runs[r].status, "QUEUED", c)]
                /\ jobs' = SnapshotHeartbeat(jobs, r, Len(snapshots[r]) + 1, "QUEUED")
                /\ rqQueue' = EnqueueMessage(rqQueue, RunMessage(r, runs[r].queue))
           ELSE UNCHANGED <<snapshots, jobs, rqQueue>>
  /\ pc' = [pc EXCEPT ![p] = "t_release"]
  /\ UNCHANGED <<runs, waitpoints, taskQueues, nextRunId, nextWaitpointId, rqInflight, rqLimits, locks, now, call>>
  /\ UNCHANGED <<controller, producer, session>>

\* trigger: the redlock.using callback returns, trigger returns taskRun
TriggerRelease(p) ==
  /\ pc[p] = "t_release"
  /\ locks' = [locks EXCEPT ![call[p].run] = 0]
  /\ pc' = [pc EXCEPT ![p] = IF call[p].tx THEN "tx_commit" ELSE "idle"]
  /\ call' = [call EXCEPT ![p] = IF call[p].tx THEN call[p] ELSE IdleCall]
  /\ UNCHANGED <<dbVars, rqVars, jobs, now>>
  /\ UNCHANGED <<controller, producer, session>>

\* ------------------------------------------- the caller's transaction
Committed(row) == [row EXCEPT !.tx = 0]

\* the caller's transaction commits after the engine call returned
TxCommit(p) ==
  /\ pc[p] = "tx_commit"
  /\ runs' = [r \in DOMAIN runs |-> IF runs[r].tx = p THEN Committed(runs[r]) ELSE runs[r]]
  /\ snapshots' = [r \in RunIds |-> [i \in DOMAIN snapshots[r] |->
                     IF snapshots[r][i].tx = p THEN Committed(snapshots[r][i]) ELSE snapshots[r][i]]]
  /\ waitpoints' = [w \in DOMAIN waitpoints |-> IF waitpoints[w].tx = p THEN Committed(waitpoints[w]) ELSE waitpoints[w]]
  /\ runWaitpoints' = {IF x.tx = p THEN Committed(x) ELSE x : x \in runWaitpoints}
  /\ taskQueues' = IF IsSome(call[p].tq) THEN [taskQueues EXCEPT ![The(call[p].tq)[1]] = Some(The(call[p].tq)[2])] ELSE taskQueues
  /\ pc' = [pc EXCEPT ![p] = "idle"]
  /\ call' = [call EXCEPT ![p] = IdleCall]
  /\ UNCHANGED <<nextRunId, nextWaitpointId, rqVars, jobs, locks, now>>
  /\ UNCHANGED <<controller, producer, session>>

\* the engine call threw inside the caller's transaction: the database rolls back
TxRollback(p) ==
  /\ pc[p] = "tx_rollback"
  /\ runs' = [r \in {x \in DOMAIN runs : runs[x].tx # p} |-> runs[r]]
  /\ snapshots' = [r \in RunIds |-> SelectSeq(snapshots[r], LAMBDA s : s.tx # p)]
  /\ waitpoints' = [w \in {x \in DOMAIN waitpoints : waitpoints[x].tx # p} |-> waitpoints[w]]
  /\ runWaitpoints' = {x \in runWaitpoints : x.tx # p}
  /\ pc' = [pc EXCEPT ![p] = "idle"]
  /\ call' = [call EXCEPT ![p] = IdleCall]
  /\ UNCHANGED <<taskQueues, nextRunId, nextWaitpointId, rqVars, jobs, locks, now>>
  /\ UNCHANGED <<controller, producer, session>>

\* ------------------------------------------------ dequeueFromMasterQueue
\* dequeueMessageInSharedQueue: the queues that hold a message and have
\* room under their own limit and the environment's
DequeueCandidates ==
  {q \in Queues :
     /\ \E i \in DOMAIN rqQueue : rqQueue[i].queue = q
     /\ QueueCurrentConcurrency(rqInflight, q) < QueueLimit(rqLimits, q)
     /\ EnvCurrentConcurrency(rqInflight) < defaultEnvConcurrency}

\* the message with the lowest score in queue q
FirstMessage(q) ==
  rqQueue[CHOOSE i \in DOMAIN rqQueue :
            rqQueue[i].queue = q /\ \A j \in DOMAIN rqQueue : rqQueue[j].queue = q => i <= j]

\* dequeueFromMasterQueue: the states a run may be dequeued from
CanBeDequeued(snapshot) == snapshot.executionStatus \in {"QUEUED", "BLOCKED_BY_WAITPOINTS"}

\* dequeueFromMasterQueue: runQueue.dequeueMessageInSharedQueue; no message returns null
DequeueFromMasterQueue(p, useTx) ==
  /\ Free(p)
  /\ IF DequeueCandidates = {}
     THEN UNCHANGED vars
     ELSE \E q \in DequeueCandidates :
            LET m == FirstMessage(q)
            IN /\ rqQueue' = SelectSeq(rqQueue, LAMBDA x : x # m)
               /\ rqInflight' = rqInflight \cup {m}
               /\ pc' = [pc EXCEPT ![p] = "d_lock"]
               /\ call' = [call EXCEPT ![p] = [IdleCall EXCEPT !.op = "dequeue", !.run = m.runId, !.tx = useTx]]
               /\ UNCHANGED <<dbVars, rqLimits, jobs, locks, now>>
  /\ UNCHANGED <<controller, producer, session>>

\* dequeueFromMasterQueue: redlock.using acquires the lock on the message's run
DequeueLock(p) ==
  /\ pc[p] = "d_lock"
  /\ locks[call[p].run] = 0
  /\ locks' = [locks EXCEPT ![call[p].run] = p]
  /\ pc' = [pc EXCEPT ![p] = "d_body"]
  /\ UNCHANGED <<dbVars, rqVars, jobs, now, call>>
  /\ UNCHANGED <<controller, producer, session>>

\* dequeueFromMasterQueue: the lock stays taken for all of redlock's retries, using() throws
DequeueLockFail(p) ==
  /\ pc[p] = "d_lock"
  /\ locks[call[p].run] # 0
  /\ pc' = [pc EXCEPT ![p] = IF call[p].tx THEN "tx_rollback" ELSE "idle"]
  /\ call' = [call EXCEPT ![p] = IF call[p].tx THEN call[p] ELSE IdleCall]
  /\ UNCHANGED <<dbVars, rqVars, jobs, locks, now>>
  /\ UNCHANGED <<controller, producer, session>>

\* dequeueFromMasterQueue: return newSnapshot
DequeueResult(message, newSnapshot) == newSnapshot

\* dequeueFromMasterQueue: under the lock, check the latest snapshot and
\* append DEQUEUED_FOR_EXECUTION; the lock is released on return and on throw
DequeueBody(p) ==
  /\ pc[p] = "d_body"
  /\ LET r == call[p].run
         c == Client(p, call[p].tx)
         snapshot == GetLatestExecutionSnapshot(c, r)
         ok == IsSome(snapshot) /\ CanBeDequeued(The(snapshot))
         hist == CreateExecutionSnapshot(snapshots[r], r, The(snapshot).runStatus, "DEQUEUED_FOR_EXECUTION", c)
     IN /\ locks' = [locks EXCEPT ![r] = 0]
        /\ IF ok
           THEN /\ snapshots' = [snapshots EXCEPT ![r] = hist]
                /\ jobs' = SnapshotHeartbeat(jobs, r, Len(snapshots[r]) + 1, "DEQUEUED_FOR_EXECUTION")
                /\ pc' = [pc EXCEPT ![p] = "d_return"]
                /\ call' = [call EXCEPT ![p].result =
                              Some(DequeueResult(RunMessage(r, runs[r].queue), hist[Len(hist)]))]
           ELSE /\ UNCHANGED <<snapshots, jobs>>
                /\ pc' = [pc EXCEPT ![p] = IF call[p].tx THEN "tx_rollback" ELSE "idle"]
                /\ call' = [call EXCEPT ![p] = IF call[p].tx THEN call[p] ELSE IdleCall]
  /\ UNCHANGED <<runs, waitpoints, runWaitpoints, taskQueues, nextRunId, nextWaitpointId, rqVars, now>>
  /\ UNCHANGED <<controller, producer, session>>

\* dequeueFromMasterQueue has returned its result to the caller
DequeueReturn(p) ==
  /\ pc[p] = "d_return"
  /\ pc' = [pc EXCEPT ![p] = IF call[p].tx THEN "tx_commit" ELSE "idle"]
  /\ call' = [call EXCEPT ![p] = IF call[p].tx THEN call[p] ELSE IdleCall]
  /\ UNCHANGED <<dbVars, rqVars, jobs, locks, now>>
  /\ UNCHANGED <<controller, producer, session>>

\* ------------------------------------------- createRunAttempt, complete
\* createRunAttempt: reads the latest snapshot; without one it calls
\* systemFailure, whose body is empty; with one it does nothing further
CreateRunAttempt(p) ==
  /\ Free(p)
  /\ \E r \in RunIds :
       LET latestSnapshot == GetLatestExecutionSnapshot(0, r)
       IN /\ pc' = [pc EXCEPT ![p] = "returned"]
          /\ call' = [call EXCEPT ![p] = [IdleCall EXCEPT !.op = "createRunAttempt", !.run = r,
                                                            !.ok = IsSome(latestSnapshot)]]
  /\ UNCHANGED <<dbVars, rqVars, jobs, locks, now>>
  /\ UNCHANGED <<controller, producer, session>>

\* complete(runId, completion): the body is empty
Complete(p) ==
  /\ Free(p)
  /\ \E r \in RunIds, ok \in BOOLEAN :
       /\ pc' = [pc EXCEPT ![p] = "returned"]
       /\ call' = [call EXCEPT ![p] = [IdleCall EXCEPT !.op = "complete", !.run = r, !.ok = ok]]
  /\ UNCHANGED <<dbVars, rqVars, jobs, locks, now>>
  /\ UNCHANGED <<controller, producer, session>>

\* the caller of createRunAttempt or complete goes on
CallReturn(p) ==
  /\ pc[p] = "returned"
  /\ pc' = [pc EXCEPT ![p] = "idle"]
  /\ call' = [call EXCEPT ![p] = IdleCall]
  /\ UNCHANGED <<dbVars, rqVars, jobs, locks, now>>
  /\ UNCHANGED <<controller, producer, session>>

\* ------------------------------------------------------- delayed jobs
\* the worker hands a job to a handler once it is due
Due(j) == j.availableAt <= now

\* worker job expireRun: expire(runId), whose body is empty; the job is acknowledged
ExpireRun(p) ==
  /\ Free(p)
  /\ \E j \in jobs :
       /\ j.job = "expireRun"
       /\ Due(j)
       /\ jobs' = WorkerAck(jobs, JobId(j))
  /\ UNCHANGED <<dbVars, rqVars, locks, now, pc, call>>
  /\ UNCHANGED <<controller, producer, session>>

\* the waitpointCompleteDateTime job of a waitpoint, as the worker holds and retries it
RetriedJob(id) == DateTimeWaitpointJob(id, The(waitpoints[id].completedAfter))

\* a #completeWaitpoint without the early return
NeverCompleted(w) == FALSE

\* #completeWaitpoint: if (waitpoint.status === "COMPLETED") return
AlreadyCompleted(w) == w.status = "COMPLETED"

\* worker job waitpointCompleteDateTime, #completeWaitpoint up to the
\* transaction: findUnique through this.prisma
CompleteWaitpointStart(p) ==
  /\ Free(p)
  /\ \E j \in jobs :
       /\ j.job = "waitpointCompleteDateTime"
       /\ Due(j)
       /\ LET id == j.waitpointId
              found == id \in DOMAIN waitpoints /\ Visible(waitpoints[id], 0)
          IN IF ~found
             THEN UNCHANGED vars \* throws "Waitpoint not found", the job stays scheduled
             ELSE IF AlreadyCompleted(waitpoints[id])
             THEN /\ jobs' = WorkerAck(jobs, JobId(j))
                  /\ UNCHANGED <<dbVars, rqVars, locks, now, pc, call>>
             ELSE /\ pc' = [pc EXCEPT ![p] = "cw_find"]
                  /\ call' = [call EXCEPT ![p] = [IdleCall EXCEPT !.op = "completeWaitpoint", !.waitpoint = id]]
                  /\ UNCHANGED <<dbVars, rqVars, jobs, locks, now>>
  /\ UNCHANGED <<controller, producer, session>>

\* the TaskRunWaitpoint rows a transaction of caller p reads: committed rows
\* that it has not deleted itself
RowsSeenBy(p) == {x \in runWaitpoints : x.tx = 0 /\ x \notin call[p].deleted}

\* #completeWaitpoint step 1: tx.taskRunWaitpoint.findMany({ where: { waitpointId } });
\* no row throws and the transaction rolls back
CompleteWaitpointFind(p) ==
  /\ pc[p] = "cw_find"
  /\ LET affectedTaskRuns == {x.taskRunId : x \in {y \in RowsSeenBy(p) : y.waitpointId = call[p].waitpoint}}
     IN IF affectedTaskRuns = {}
        THEN /\ pc' = [pc EXCEPT ![p] = "idle"]
             /\ call' = [call EXCEPT ![p] = IdleCall]
             /\ jobs' = WorkerNack(jobs, RetriedJob(call[p].waitpoint))
        ELSE /\ pc' = [pc EXCEPT ![p] = "cw_write"]
             /\ call' = [call EXCEPT ![p].affected = affectedTaskRuns]
             /\ jobs' = jobs
  /\ UNCHANGED <<dbVars, rqVars, locks, now>>
  /\ UNCHANGED <<controller, producer, session>>

\* another open transaction holds the row locks on this waitpoint
WaitpointLocked(p, id) ==
  \E o \in Procs : o # p /\ pc[o] \in {"cw_resume", "cw_commit"} /\ call[o].waitpoint = id

\* #completeWaitpoint steps 2 and 3: deleteMany and the status update, both
\* inside the transaction
CompleteWaitpointWrite(p) ==
  /\ pc[p] = "cw_write"
  /\ ~WaitpointLocked(p, call[p].waitpoint)
  /\ call' = [call EXCEPT ![p].deleted = {x \in RowsSeenBy(p) : x.waitpointId = call[p].waitpoint}]
  /\ pc' = [pc EXCEPT ![p] = "cw_resume"]
  /\ UNCHANGED <<dbVars, rqVars, jobs, locks, now>>
  /\ UNCHANGED <<controller, producer, session>>

\* #completeWaitpoint step 4: the affected runs with no TaskRunWaitpoint row
\* left and status PENDING or WAITING_TO_RESUME
TaskRunsToResume(p) ==
  {r \in call[p].affected :
     /\ r \in DOMAIN runs
     /\ Visible(runs[r], 0)
     /\ ~\E x \in RowsSeenBy(p) : x.taskRunId = r
     /\ runs[r].status \in {"PENDING", "WAITING_TO_RESUME"}}

\* #continueRun: run is still executing with a worker attached; the branch
\* appends a snapshot and then throws NotImplementedError
ContinuesExecuting(snapshot) == snapshot.executionStatus = "EXECUTING" /\ IsSome(snapshot.worker)

\* #continueRun fails: no snapshot, or the executing branch
ContinueRunThrows(p, r) ==
  LET snapshot == GetLatestExecutionSnapshot(p, r)
  IN ~IsSome(snapshot) \/ ContinuesExecuting(The(snapshot))

\* the runs in ascending id order
RECURSIVE SortedRuns(_)
SortedRuns(S) ==
  IF S = {} THEN <<>>
  ELSE LET m == CHOOSE x \in S : \A y \in S : x <= y
       IN <<m>> \o SortedRuns(S \ {m})

\* #continueRun for each run of rs: the messages enqueued
RECURSIVE ContinueRunQueue(_, _)
ContinueRunQueue(q, rs) ==
  IF rs = <<>> THEN q
  ELSE ContinueRunQueue(EnqueueMessage(q, RunMessage(Head(rs), runs[Head(rs)].queue)), Tail(rs))

\* #continueRun for each run of rs: the heartbeats of the QUEUED snapshots
RECURSIVE ContinueRunJobs(_, _)
ContinueRunJobs(js, rs) ==
  IF rs = <<>> THEN js
  ELSE ContinueRunJobs(SnapshotHeartbeat(js, Head(rs), Len(snapshots[Head(rs)]) + 1, "QUEUED"), Tail(rs))

\* #completeWaitpoint steps 4 and 5: #continueRun for every run to resume, one
\* after the other (lock, snapshot through tx, enqueueMessage, unlock). The
\* snapshot rows stay uncommitted; the messages and the heartbeat jobs are
\* written at once. A throwing #continueRun rolls the transaction back and the
\* job is retried; what the earlier runs of the loop wrote to the run queue
\* and to the worker stays, as does the heartbeat of the executing branch.
CompleteWaitpointResume(p) ==
  /\ pc[p] = "cw_resume"
  /\ LET id == call[p].waitpoint
         resume == SortedRuns(TaskRunsToResume(p))
         throwing == {i \in 1..Len(resume) : ContinueRunThrows(p, resume[i])}
     IN /\ \A i \in 1..Len(resume) : locks[resume[i]] = 0
        /\ IF throwing # {}
           THEN LET k == CHOOSE i \in throwing : \A j \in throwing : i <= j
                    before == SubSeq(resume, 1, k - 1)
                    snapshot == GetLatestExecutionSnapshot(p, resume[k])
                    jobs1 == ContinueRunJobs(jobs, before)
                    jobs2 == IF IsSome(snapshot)
                             THEN SnapshotHeartbeat(jobs1, resume[k], Len(snapshots[resume[k]]) + 1, "EXECUTING")
                             ELSE jobs1
                IN /\ jobs' = WorkerNack(jobs2, RetriedJob(id))
                   /\ rqQueue' = ContinueRunQueue(rqQueue, before)
                   /\ pc' = [pc EXCEPT ![p] = "idle"]
                   /\ call' = [call EXCEPT ![p] = IdleCall]
                   /\ UNCHANGED snapshots
           ELSE /\ snapshots' = [r \in RunIds |->
                     IF \E i \in 1..Len(resume) : resume[i] = r
                     THEN CreateExecutionSnapshot(snapshots[r], r, runs[r].status, "QUEUED", p)
                     ELSE snapshots[r]]
                /\ rqQueue' = ContinueRunQueue(rqQueue, resume)
                /\ jobs' = ContinueRunJobs(jobs, resume)
                /\ pc' = [pc EXCEPT ![p] = "cw_commit"]
                /\ call' = call
  /\ UNCHANGED <<runs, waitpoints, runWaitpoints, taskQueues, nextRunId, nextWaitpointId,
                 rqInflight, rqLimits, locks, now>>
  /\ UNCHANGED <<controller, producer, session>>

\* #completeWaitpoint: the transaction commits (the deleted rows, the status
\* of the waitpoint, the snapshots of the continued runs), the handler
\* returns and the job is acknowledged
CompleteWaitpointCommit(p) ==
  /\ pc[p] = "cw_commit"
  /\ runWaitpoints' = runWaitpoints \ call[p].deleted
  /\ waitpoints' = [waitpoints EXCEPT ![call[p].waitpoint].status = "COMPLETED"]
  /\ snapshots' = [r \in RunIds |-> [i \in DOMAIN snapshots[r] |->
                     IF snapshots[r][i].tx = p THEN Committed(snapshots[r][i]) ELSE snapshots[r][i]]]
  /\ jobs' = WorkerAck(jobs, <<"waitpointCompleteDateTime", 0, call[p].waitpoint, 0>>)
  /\ pc' = [pc EXCEPT ![p] = "idle"]
  /\ call' = [call EXCEPT ![p] = IdleCall]
  /\ UNCHANGED <<runs, taskQueues, nextRunId, nextWaitpointId, rqVars, locks, now>>
  /\ UNCHANGED <<controller, producer, session>>

\* this.#getLatestExecutionSnapshot(runId) as #handleStalledSnapshot calls it:
\* the method is declared (prisma, runId), so the run id is bound to prisma,
\* a string has no taskRunExecutionSnapshot, and findFirst of undefined throws
\* a TypeError
GetLatestExecutionSnapshotOfRunId(runId) == [threw |-> TRUE, latestSnapshot |-> None]

\* worker job heartbeatSnapshot: #handleStalledSnapshot(payload). A handler
\* that returns has its job acknowledged, one that throws has it retried.
HandleStalledSnapshot(p) ==
  /\ Free(p)
  /\ \E j \in jobs :
       /\ j.job = "heartbeatSnapshot"
       /\ Due(j)
       /\ LET got == GetLatestExecutionSnapshotOfRunId(j.runId)
              threw == \/ got.threw
                       \/ /\ IsSome(got.latestSnapshot)
                          /\ The(got.latestSnapshot).id = j.snapshotId \* NotImplementedError
          IN /\ jobs' = IF threw THEN WorkerNack(jobs, j) ELSE WorkerAck(jobs, JobId(j))
             /\ call' = [call EXCEPT ![p] = [IdleCall EXCEPT !.op = "handleStalledSnapshot", !.run = j.runId,
                                               !.result = Some(j.snapshotId), !.ok = ~threw]]
  /\ pc' = [pc EXCEPT ![p] = "returned"]
  /\ UNCHANGED <<dbVars, rqVars, locks, now>>
  /\ UNCHANGED <<controller, producer, session>>

\* ------------------------------------------------------------------ time
Tick ==
  /\ now < MaxTime
  /\ now' = now + 1
  /\ UNCHANGED <<dbVars, rqVars, jobs, locks, pc, call>>
  /\ UNCHANGED <<controller, producer, session>>

\* the engine on this.prisma: no caller hands in a transaction client
\* ----------------------------------------- ManagedRunController: steps
\* the pending awaits of the given kinds
Pending(kinds, ats) == {t \in controller.promises : t.kind \in kinds /\ t.at \in ats}

Running == controller.life = "running"

\* env.TRIGGER_RUN_ID and env.TRIGGER_SNAPSHOT_ID of a runner created for a run
EnvRunId == 1

EnvSnapshotId == <<1, 1>>

\* the awaits of the run:notify handler and of the poller's heartbeat,
\* handleSnapshotChange included
HandlerAwaits == {"getRunExecutionData", "cancelAttempt", "suspendCleanup", "suspendSleep",
                  "reconnectSleep", "continueRunExecution"}

\* start: createSocket, then an attempt of the run named in the environment,
\* or waitForNextRun
ControllerStart ==
  /\ controller.life = "new"
  /\ LET c == [controller EXCEPT !.life = "running", !.socket = TRUE]
     IN \/ controller' = StartAndExecuteRunAttempt(c, EnvRunId, EnvSnapshotId)
        \/ controller' = WaitForNextRun(c)
  /\ UNCHANGED <<engineVars, producer, session>>

\* startAndExecuteRunAttempt after startRunAttempt: on failure waitForNextRun,
\* else enterRunPhase and executeRun up to its await of execute(); initialize
\* and execute are one await here
StartRunAttemptSettled ==
  /\ Running
  /\ \E t \in Pending({"attempt"}, {"startRunAttempt"}) :
       LET c == Settle(controller, t)
       IN \/ controller' = WaitForNextRun(c)
          \/ \E attemptNumber \in AttemptNumbers, snapshot \in SnapshotsOf(t.run) :
               LET d == EnterRunPhase(c, t.run, attemptNumber, snapshot)
               IN controller' = Await([d EXCEPT !.taskRunProcess = t.id, !.processes = @ \cup {t.id}],
                                      [t EXCEPT !.snapshot = snapshot], "execute")
  /\ UNCHANGED <<engineVars, producer, session>>

\* executeRun after execute(): with a completion it calls cleanup(true) on
\* the process the field refers to; a rejection is caught by
\* startAndExecuteRunAttempt, which submits a failed completion under
\* this.snapshotFriendlyId ?? snapshot.friendlyId
ExecuteSettled ==
  /\ Running
  /\ \E t \in Pending({"attempt"}, {"execute"}) :
       LET c == Settle(controller, t)
       IN \/ \E completion \in Completions :
               LET w == [t EXCEPT !.completion = completion, !.snapshot = NoSnapshot]
               IN \/ controller' = Await(Kill(c), w, "cleanup")
                  \/ controller' = Await(c, w, "cleanup") \* cleanup throws
          \/ controller' =
               Await([c EXCEPT !.processes = @ \ {t.id}],
                     [t EXCEPT !.completion = "failed",
                               !.snapshot = IF c.phase = "RUN" THEN c.snapshot ELSE t.snapshot],
                     "completeAfterError")
  /\ UNCHANGED <<engineVars, producer, session>>

\* executeRun after cleanup: without run or snapshot id waitForNextRun, else
\* completeRunAttempt under this.runFriendlyId and this.snapshotFriendlyId
CleanupSettled ==
  /\ Running
  /\ \E t \in Pending({"attempt"}, {"cleanup"}) :
       LET c == Settle(controller, t)
       IN controller' = IF c.phase # "RUN" THEN WaitForNextRun(c)
                        ELSE Await(c, [t EXCEPT !.run = c.run], "completeRunAttempt")
  /\ UNCHANGED <<engineVars, producer, session>>

\* after completeRunAttempt, in executeRun or in the catch of
\* startAndExecuteRunAttempt: on failure waitForNextRun, else
\* handleCompletionResult
CompleteRunAttemptSettled ==
  /\ Running
  /\ \E t \in Pending({"attempt"}, {"completeRunAttempt", "completeAfterError"}) :
       LET c == Settle(controller, t)
       IN \/ controller' = WaitForNextRun(c)
          \/ \E attemptStatus \in AttemptStatuses, attemptNumber \in AttemptNumbers,
                snapshot \in SnapshotsOf(t.run) :
               controller' = HandleCompletionResult(c, t, attemptStatus, attemptNumber, snapshot)
  /\ UNCHANGED <<engineVars, producer, session>>

\* handleCompletionResult after sleep(completion.retry.delay): the next
\* attempt of the run under this.snapshotFriendlyId; without it the throw is
\* caught by the caller, which calls waitForNextRun
RetrySleepSettled(limit) ==
  /\ Running
  /\ controller.phase = "RUN" => controller.attempts < limit
  /\ \E t \in Pending({"attempt"}, {"retrySleep"}) :
       LET c == Settle(controller, t)
       IN controller' = IF c.phase # "RUN" THEN WaitForNextRun(c)
                        ELSE StartAndExecuteRunAttempt(c, t.run, c.snapshot)
  /\ UNCHANGED <<engineVars, producer, session>>

\* waitForNextRun after the long poll: the next run's attempt is started and
\* the lock released
LongPollSettled(limit) ==
  /\ Running
  /\ controller.attempts < limit
  /\ \E t \in Pending({"waitForNextRun"}, {"longPoll"}) :
       \E run \in RunNames : \E snapshot \in SnapshotsOf(run) :
         controller' = [StartAndExecuteRunAttempt(Settle(controller, t), run, snapshot)
                          EXCEPT !.waitForNextRunLock = FALSE]
  /\ UNCHANGED <<engineVars, producer, session>>

\* longPoll: the fetch timed out or threw and the total duration has not
\* elapsed, the next fetch is sent
LongPollRetried ==
  /\ Running
  /\ \E t \in Pending({"waitForNextRun"}, {"longPoll"}) :
       /\ t.elapsed + 1 < TotalDuration
       /\ controller' = Await(Settle(controller, t), [t EXCEPT !.elapsed = @ + 1], "longPoll")
  /\ UNCHANGED <<engineVars, producer, session>>

\* waitForNextRun after a long poll that is not ok, for a response that is
\* not ok or for a timed-out or failed fetch that used up the total
\* duration: process.exit(0)
LongPollFailed ==
  /\ Running
  /\ Pending({"waitForNextRun"}, {"longPoll"}) # {}
  /\ controller' = [controller EXCEPT !.life = "exited", !.promises = {},
                                      !.runHeartbeat = FALSE, !.snapshotPoller = FALSE]
  /\ UNCHANGED <<engineVars, producer, session>>

\* socket.on("run:notify"): notifications without a local run or for
\* another run are ignored
RunNotify(limit) ==
  /\ Running
  /\ controller.socket
  /\ Cardinality(Pending({"notify", "poll"}, HandlerAwaits)) < limit
  /\ controller.phase = "RUN"
  /\ controller' = Await(controller, [Promise("notify", "") EXCEPT !.run = controller.run],
                         "getRunExecutionData")
  /\ UNCHANGED <<engineVars, producer, session>>

\* run:notify, one at a time, while the runner's first attempt is the only
\* one it has started
RunNotifyEarly ==
  /\ controller.attempts <= 1
  /\ RunNotify(1)

\* snapshotPoller heartbeat
SnapshotPoll(limit) ==
  /\ Running
  /\ Cardinality(Pending({"notify", "poll"}, HandlerAwaits)) < limit
  /\ controller.snapshotPoller
  /\ controller.phase = "RUN"
  /\ controller' = Await(controller, [Promise("poll", "") EXCEPT !.run = controller.run],
                         "getRunExecutionData")
  /\ UNCHANGED <<engineVars, producer, session>>

\* run:notify and the poller after getRunExecutionData: on failure return,
\* else handleSnapshotChange
GetRunExecutionDataSettled ==
  /\ Running
  /\ \E t \in Pending({"notify", "poll"}, {"getRunExecutionData"}) :
       LET c == Settle(controller, t)
       IN \/ controller' = c
          \/ \E data \in ExecutionDataOf(t.run) : controller' = HandleSnapshotChange(c, t, data)
  /\ UNCHANGED <<engineVars, producer, session>>

\* handleSnapshotChange, PENDING_CANCEL, after cancelAttempt: a throw calls
\* waitForNextRun
CancelAttemptSettled ==
  /\ Running
  /\ \E t \in Pending({"notify", "poll"}, {"cancelAttempt"}) :
       LET c == Settle(controller, t)
       IN \/ controller' = Release(c)
          \/ controller' = Release(WaitForNextRun(c))
  /\ UNCHANGED <<engineVars, producer, session>>

\* handleSnapshotChange, EXECUTING_WITH_WAITPOINTS, after cleanup(false)
SuspendCleanupSettled ==
  /\ Running
  /\ \E t \in Pending({"notify", "poll"}, {"suspendCleanup"}) :
       LET c == Settle(controller, t)
       IN controller' = IF t.snapshot # c.snapshot THEN Release(c) ELSE Await(c, t, "suspendSleep")
  /\ UNCHANGED <<engineVars, producer, session>>

\* handleSnapshotChange, EXECUTING_WITH_WAITPOINTS, after sleep(200):
\* every branch returns, suspension is disabled
SuspendSleepSettled ==
  /\ Running
  /\ \E t \in Pending({"notify", "poll"}, {"suspendSleep"}) :
       controller' = Release(Settle(controller, t))
  /\ UNCHANGED <<engineVars, producer, session>>

\* handleSnapshotChange, PENDING_EXECUTING, after sleep(100)
ReconnectSleepSettled ==
  /\ Running
  /\ \E t \in Pending({"notify", "poll"}, {"reconnectSleep"}) :
       controller' = Await(Settle(controller, t), t, "continueRunExecution")
  /\ UNCHANGED <<engineVars, producer, session>>

\* handleSnapshotChange, PENDING_EXECUTING, after continueRunExecution: a
\* failure calls waitForNextRun
ContinueRunExecutionSettled ==
  /\ Running
  /\ \E t \in Pending({"notify", "poll"}, {"continueRunExecution"}) :
       LET c == Settle(controller, t)
       IN \/ controller' = Release(c)
          \/ controller' = Release(WaitForNextRun(c))
  /\ UNCHANGED <<engineVars, producer, session>>

\* runHeartbeat.stop(), snapshotPoller.stop(), socket.close()
Stopped(c) == [c EXCEPT !.runHeartbeat = FALSE, !.snapshotPoller = FALSE, !.socket = FALSE]

\* SIGTERM: stop, up to its await of cleanup(true) when there is a child
\* process, else to its end
Stop ==
  /\ Running
  /\ Pending({"stop"}, {"stopCleanup"}) = {}
  /\ controller' = IF controller.taskRunProcess = 0 THEN Stopped(controller)
                   ELSE Await(Kill(controller), Promise("stop", ""), "stopCleanup")
  /\ UNCHANGED <<engineVars, producer, session>>

\* stop after cleanup(true); when cleanup throws nothing is stopped
StopCleanupSettled ==
  /\ Running
  /\ \E t \in Pending({"stop"}, {"stopCleanup"}) :
       \/ controller' = Stopped(Settle(controller, t))
       \/ controller' = Settle(controller, t)
  /\ UNCHANGED <<engineVars, producer, session>>

\* the runner through its attempts, with one run:notify or poll in flight
NextController ==
  \/ ControllerStart
  \/ StartRunAttemptSettled
  \/ ExecuteSettled
  \/ CleanupSettled
  \/ CompleteRunAttemptSettled
  \/ RetrySleepSettled(MaxAttempts)
  \/ LongPollSettled(MaxAttempts)
  \/ LongPollRetried
  \/ LongPollFailed
  \/ RunNotify(1)
  \/ SnapshotPoll(1)
  \/ GetRunExecutionDataSettled
  \/ CancelAttemptSettled
  \/ SuspendCleanupSettled
  \/ SuspendSleepSettled
  \/ ReconnectSleepSettled
  \/ ContinueRunExecutionSettled

SpecController == Init /\ [][NextController]_vars

\* the runner in its first attempt, with concurrent run:notify and poll
\* handlers and SIGTERM
NextSnapshots ==
  \/ ControllerStart
  \/ StartRunAttemptSettled
  \/ ExecuteSettled
  \/ CleanupSettled
  \/ CompleteRunAttemptSettled
  \/ RetrySleepSettled(1)
  \/ LongPollSettled(1)
  \/ LongPollRetried
  \/ LongPollFailed
  \/ RunNotify(MaxPending)
  \/ SnapshotPoll(MaxPending)
  \/ GetRunExecutionDataSettled
  \/ CancelAttemptSettled
  \/ SuspendCleanupSettled
  \/ SuspendSleepSettled
  \/ ReconnectSleepSettled
  \/ ContinueRunExecutionSettled
  \/ Stop
  \/ StopCleanupSettled

SpecSnapshots == Init /\ [][NextSnapshots]_vars

\* the runner through three attempts, notified during the first one only
NextWarmStart ==
  \/ ControllerStart
  \/ StartRunAttemptSettled
  \/ ExecuteSettled
  \/ CleanupSettled
  \/ CompleteRunAttemptSettled
  \/ RetrySleepSettled(MaxWarmStarts)
  \/ LongPollSettled(MaxWarmStarts)
  \/ LongPollRetried
  \/ LongPollFailed
  \/ RunNotifyEarly
  \/ GetRunExecutionDataSettled
  \/ CancelAttemptSettled
  \/ SuspendCleanupSettled
  \/ SuspendSleepSettled
  \/ ReconnectSleepSettled
  \/ ContinueRunExecutionSettled

SpecWarmStart == Init /\ [][NextWarmStart]_vars

Next ==
  \/ \E p \in Procs, a \in TriggerParams : TriggerStart(p, a)
  \/ \E p \in Procs : TriggerBlockSelf(p)
  \/ \E p \in Procs : TriggerRelease(p)
  \/ \E p \in Procs : DequeueFromMasterQueue(p, FALSE)
  \/ \E p \in Procs : DequeueLock(p)
  \/ \E p \in Procs : DequeueLockFail(p)
  \/ \E p \in Procs : DequeueBody(p)
  \/ \E p \in Procs : DequeueReturn(p)
  \/ \E p \in Procs : ExpireRun(p)
  \/ \E p \in Procs : CompleteWaitpointStart(p)
  \/ \E p \in Procs : CompleteWaitpointFind(p)
  \/ \E p \in Procs : CompleteWaitpointWrite(p)
  \/ \E p \in Procs : CompleteWaitpointResume(p)
  \/ \E p \in Procs : CompleteWaitpointCommit(p)
  \/ Tick

Spec == Init /\ [][Next]_vars

\* the same engine, triggered with idempotency keys
NextKeyed ==
  \/ \E p \in Procs, a \in KeyedTriggerParams : TriggerStart(p, a)
  \/ \E p \in Procs : TriggerBlockSelf(p)
  \/ \E p \in Procs : TriggerRelease(p)
  \/ \E p \in Procs : DequeueFromMasterQueue(p, FALSE)
  \/ \E p \in Procs : DequeueLock(p)
  \/ \E p \in Procs : DequeueLockFail(p)
  \/ \E p \in Procs : DequeueBody(p)
  \/ \E p \in Procs : DequeueReturn(p)
  \/ \E p \in Procs : CompleteWaitpointStart(p)
  \/ \E p \in Procs : CompleteWaitpointFind(p)
  \/ \E p \in Procs : CompleteWaitpointWrite(p)
  \/ \E p \in Procs : CompleteWaitpointResume(p)
  \/ \E p \in Procs : CompleteWaitpointCommit(p)
  \/ Tick

SpecKeyed == Init /\ [][NextKeyed]_vars

\* the same engine, with callers that hand their transaction client to
\* trigger and dequeueFromMasterQueue
NextTx ==
  \/ \E p \in Procs, a \in TxTriggerParams : TriggerStart(p, a)
  \/ \E p \in Procs : TriggerBlockSelf(p)
  \/ \E p \in Procs : TriggerRelease(p)
  \/ \E p \in Procs, useTx \in BOOLEAN : DequeueFromMasterQueue(p, useTx)
  \/ \E p \in Procs : DequeueLock(p)
  \/ \E p \in Procs : DequeueLockFail(p)
  \/ \E p \in Procs : DequeueBody(p)
  \/ \E p \in Procs : DequeueReturn(p)
  \/ \E p \in Procs : CompleteWaitpointStart(p)
  \/ \E p \in Procs : CompleteWaitpointFind(p)
  \/ \E p \in Procs : CompleteWaitpointWrite(p)
  \/ \E p \in Procs : CompleteWaitpointResume(p)
  \/ \E p \in Procs : CompleteWaitpointCommit(p)
  \/ \E p \in Procs : TxCommit(p)
  \/ \E p \in Procs : TxRollback(p)
  \/ Tick

SpecTx == Init /\ [][NextTx]_vars

\* the simple scenario: trigger, dequeue, start an attempt, complete
NextAttempts ==
  \/ \E p \in Procs, a \in AttemptTriggerParams : TriggerStart(p, a)
  \/ \E p \in Procs : TriggerRelease(p)
  \/ \E p \in Procs : DequeueFromMasterQueue(p, FALSE)
  \/ \E p \in Procs : DequeueLock(p)
  \/ \E p \in Procs : DequeueLockFail(p)
  \/ \E p \in Procs : DequeueBody(p)
  \/ \E p \in Procs : DequeueReturn(p)
  \/ \E p \in Procs : CreateRunAttempt(p)
  \/ \E p \in Procs : Complete(p)
  \/ \E p \in Procs : CallReturn(p)

SpecAttempts == Init /\ [][NextAttempts]_vars

\* the engine with the stall checks of its snapshots: trigger, dequeue and
\* the heartbeatSnapshot jobs of the worker
NextStall ==
  \/ \E p \in Procs, a \in TriggerParams : TriggerStart(p, a)
  \/ \E p \in Procs : TriggerBlockSelf(p)
  \/ \E p \in Procs : TriggerRelease(p)
  \/ \E p \in Procs : DequeueFromMasterQueue(p, FALSE)
  \/ \E p \in Procs : DequeueLock(p)
  \/ \E p \in Procs : DequeueLockFail(p)
  \/ \E p \in Procs : DequeueBody(p)
  \/ \E p \in Procs : DequeueReturn(p)
  \/ \E p \in Procs : HandleStalledSnapshot(p)
  \/ \E p \in Procs : CallReturn(p)
  \/ Tick

SpecStall == Init /\ [][NextStall]_vars

\* the engine constructed over a database in which runs are waiting: every run
\* has executed and is WAITING_TO_RESUME, its latest snapshot is
\* BLOCKED_BY_WAITPOINTS or EXECUTING with its worker attached, and it is
\* blocked by one or both of two DATETIME waitpoints whose jobs are due
InitResume ==
  /\ \E blocked \in (SUBSET (RunIds \X {1, 2})) \ {{}}, attached \in SUBSET RunIds :
       /\ runs = [r \in RunIds |->
            [TaskRunRow([idempotencyKey |-> None, queueName |-> "q1", delayUntil |-> None,
                         parentTaskRunId |-> None, resumeParentOnCompletion |-> FALSE], 0)
               EXCEPT !.status = "WAITING_TO_RESUME"]]
       /\ snapshots = [r \in RunIds |->
            LET executing == <<SnapshotRow(r, 1, "RUN_CREATED", "PENDING", 0),
                               SnapshotRow(r, 2, "QUEUED", "PENDING", 0),
                               SnapshotRow(r, 3, "DEQUEUED_FOR_EXECUTION", "PENDING", 0),
                               [SnapshotRow(r, 4, "EXECUTING", "EXECUTING", 0) EXCEPT !.worker = Some(r)]>>
            IN  IF r \in attached THEN executing
                ELSE CreateExecutionSnapshot(executing, r, "WAITING_TO_RESUME", "BLOCKED_BY_WAITPOINTS", 0)]
       /\ runWaitpoints = {[taskRunId |-> b[1], waitpointId |-> b[2], tx |-> 0] : b \in blocked}
  /\ waitpoints = [w \in {1, 2} |-> CreateDateTimeWaitpoint(0, 0)]
  /\ jobs = {DateTimeWaitpointJob(w, 0) : w \in {1, 2}}
  /\ taskQueues = [q \in Queues |-> None]
  /\ nextRunId = MaxRuns + 1
  /\ nextWaitpointId = 3
  /\ rqQueue = <<>>
  /\ rqInflight = {}
  /\ rqLimits = [q \in Queues |-> None]
  /\ locks = [r \in RunIds |-> 0]
  /\ now = 0
  /\ pc = [p \in Procs |-> "idle"]
  /\ call = [p \in Procs |-> IdleCall]
  /\ controller = NewController
  /\ producer = NewProducer(<<>>, [organizationId |-> <<"o1">>, projectId |-> <<"p1">>,
                                   type |-> "PRODUCTION", id |-> <<"e1">>], <<"a">>, <<>>)
  /\ session = NewSession

NextResume ==
  \/ \E p \in Procs : CompleteWaitpointStart(p)
  \/ \E p \in Procs : CompleteWaitpointFind(p)
  \/ \E p \in Procs : CompleteWaitpointWrite(p)
  \/ \E p \in Procs : CompleteWaitpointResume(p)
  \/ \E p \in Procs : CompleteWaitpointCommit(p)
  \/ \E p \in Procs : DequeueFromMasterQueue(p, FALSE)
  \/ \E p \in Procs : DequeueLock(p)
  \/ \E p \in Procs : DequeueLockFail(p)
  \/ \E p \in Procs : DequeueBody(p)
  \/ \E p \in Procs : DequeueReturn(p)

SpecResume == InitResume /\ [][NextResume]_vars

\* --------------------------------------------------- key producer calls
InitKeys ==
  /\ runs = <<>>
  /\ snapshots = [r \in RunIds |-> <<>>]
  /\ waitpoints = <<>>
  /\ runWaitpoints = {}
  /\ taskQueues = [q \in Queues |-> None]
  /\ nextRunId = 1
  /\ nextWaitpointId = 1
  /\ rqQueue = <<>>
  /\ rqInflight = {}
  /\ rqLimits = [q \in Queues |-> None]
  /\ jobs = {}
  /\ locks = [r \in RunIds |-> 0]
  /\ now = 0
  /\ pc = [p \in Procs |-> "idle"]
  /\ call = [p \in Procs |-> IdleCall]
  /\ controller = NewController
  \* the ids of an environment are database ids; strings are of bounded length
  /\ \E prefix \in {<<>>, <<"rq", ":">>},
        env \in [organizationId : {<<"o1">>}, projectId : {<<"p1">>},
                 type : {"DEVELOPMENT", "PRODUCTION"}, id : {<<"e1">>}],
        queue \in UNION {[1..k -> Atoms] : k \in 1..MaxQueueLen},
        concurrencyKey \in UNION {[1..k -> Atoms] : k \in 0..MaxKeyLen} :
       producer = NewProducer(prefix, env, queue, concurrencyKey)
  /\ session = NewSession

QueueKey ==
  /\ producer.key = <<>>
  /\ producer' = [producer EXCEPT
       !.key = queueKey(producer.env, producer.queue, producer.concurrencyKey)]
  /\ UNCHANGED <<engineVars, controller, session>>

CurrentConcurrencyKeyFromQueue ==
  /\ producer.key # <<>>
  /\ producer.called = ""
  /\ producer' = [producer EXCEPT !.called = "currentConcurrencyKeyFromQueue",
                                   !.returned = currentConcurrencyKeyFromQueue(producer.key)]
  /\ UNCHANGED <<engineVars, controller, session>>

ConcurrencyLimitKeyFromQueue ==
  /\ producer.key # <<>>
  /\ producer.called = ""
  /\ producer' = [producer EXCEPT !.called = "concurrencyLimitKeyFromQueue",
                                   !.returned = concurrencyLimitKeyFromQueue(producer.key)]
  /\ UNCHANGED <<engineVars, controller, session>>

EnvConcurrencyLimitKeyFromQueue ==
  /\ producer.key # <<>>
  /\ producer.called = ""
  /\ producer' = [producer EXCEPT !.called = "envConcurrencyLimitKeyFromQueue",
                                   !.returned = envConcurrencyLimitKeyFromQueue(producer.prefix, producer.key)]
  /\ UNCHANGED <<engineVars, controller, session>>

EnvCurrentConcurrencyKeyFromQueue ==
  /\ producer.key # <<>>
  /\ producer.called = ""
  /\ producer' = [producer EXCEPT !.called = "envCurrentConcurrencyKeyFromQueue",
                                   !.returned = envCurrentConcurrencyKeyFromQueue(producer.prefix, producer.key)]
  /\ UNCHANGED <<engineVars, controller, session>>

NextKeys ==
  \/ QueueKey
  \/ CurrentConcurrencyKeyFromQueue
  \/ ConcurrencyLimitKeyFromQueue
  \/ EnvConcurrencyLimitKeyFromQueue
  \/ EnvCurrentConcurrencyKeyFromQueue

SpecKeys == InitKeys /\ [][NextKeys]_vars

\* ----------------------------------------------- SupervisorSession: steps
\* start up to its await of httpClient.connect
SessionStart ==
  /\ session.life = "new"
  /\ session' = [session EXCEPT !.life = "connecting"]
  /\ UNCHANGED <<engineVars, controller, producer>>

\* start after connect: a failed connect throws, else the queue consumer and
\* the heartbeat service are started and the socket is created
SessionConnectSettled ==
  /\ session.life = "connecting"
  /\ \/ session' = [session EXCEPT !.life = "failed"]
     \/ session' = [session EXCEPT !.life = "started", !.queueConsumer = TRUE,
                                    !.heartbeatService = TRUE, !.socket = "connected"]
  /\ UNCHANGED <<engineVars, controller, producer>>

\* stop: heartbeatService.stop() and socket?.disconnect()
SessionStop ==
  /\ session.life = "started"
  /\ session' = [session EXCEPT !.life = "stopped", !.heartbeatService = FALSE,
                                 !.socket = IF session.socket = "none" THEN "none" ELSE "disconnected"]
  /\ UNCHANGED <<engineVars, controller, producer>>

\* the started queue consumer dequeues and hands the messages to onDequeue,
\* which emits one runQueueMessage event for each
ConsumerDequeue ==
  /\ session.queueConsumer
  /\ session.dequeues < MaxDequeues
  /\ \E messages \in 0..MaxBatch :
       session' = [session EXCEPT !.dequeues = @ + 1, !.runQueueMessages = @ + messages]
  /\ UNCHANGED <<engineVars, controller, producer>>

\* the started heartbeat service fires: httpClient.heartbeatWorker
WorkerHeartbeat ==
  /\ session.heartbeatService
  /\ session.heartbeats < MaxBeats
  /\ session' = [session EXCEPT !.heartbeats = @ + 1]
  /\ UNCHANGED <<engineVars, controller, producer>>

\* socket.on("run:notify"): the session emits runNotification
SessionRunNotify ==
  /\ session.socket = "connected"
  /\ session.runNotifications < MaxNotifications
  /\ session' = [session EXCEPT !.runNotifications = @ + 1]
  /\ UNCHANGED <<engineVars, controller, producer>>

NextSession ==
  \/ SessionStart
  \/ SessionConnectSettled
  \/ SessionStop
  \/ ConsumerDequeue
  \/ WorkerHeartbeat
  \/ SessionRunNotify

SpecSession == Init /\ [][NextSession]_vars

\* ------------------------------------------------------------ properties
\* the runs that hold a message in the run queue
QueuedRuns == {rqQueue[i].runId : i \in DOMAIN rqQueue}

\* the runs a TaskRunWaitpoint row blocks
BlockedRuns == {x.taskRunId : x \in runWaitpoints}

C2_WaitingIffBlocked ==
  \A r \in DOMAIN runs : runs[r].status = "WAITING_TO_RESUME" <=> r \in BlockedRuns

\* the step is a dequeueFromMasterQueue call of p that got a message
DequeueReturns(p) == pc[p] = "idle" /\ pc'[p] = "d_lock"

C4_CompletedIsTerminal ==
  [][\A w \in DOMAIN waitpoints :
       waitpoints[w].status = "COMPLETED" =>
         w \in DOMAIN waitpoints' /\ waitpoints'[w].status = "COMPLETED"]_vars

\* a waitpoint is COMPLETED and a later trigger has created its waitpoints
C4_Witness ==
  \E w \in DOMAIN waitpoints :
    /\ waitpoints[w].status = "COMPLETED"
    /\ \E v \in DOMAIN waitpoints : v > w /\ waitpoints[v].status = "PENDING"

\* the waitpointCompleteDateTime jobs the step takes off the worker
AckedWaitpointJobs == {j \in jobs \ jobs' : j.job = "waitpointCompleteDateTime"}

\* C5: a #completeWaitpoint call on a waitpoint that is already COMPLETED
\* returns before the transaction, and the step that handles its job changes
\* no database row and no run queue entry
C5_CompleteWaitpointIdempotent ==
  [][/\ \A p \in Procs :
          (pc[p] = "idle" /\ pc'[p] = "cw_find") =>
            waitpoints[call'[p].waitpoint].status # "COMPLETED"
     /\ \A j \in AckedWaitpointJobs :
          waitpoints[j.waitpointId].status = "COMPLETED" => UNCHANGED <<dbVars, rqVars>>]_vars

\* the job of a waitpoint that is already COMPLETED is due again and a handler is free
C5_Witness ==
  \E j \in jobs :
    /\ j.job = "waitpointCompleteDateTime"
    /\ Due(j)
    /\ waitpoints[j.waitpointId].status = "COMPLETED"
    /\ \A p \in Procs : pc[p] = "idle"

\* C6: triggers with the same idempotencyKey leave exactly one run row
C6_OneRunPerKey ==
  \A k \in Keys : Cardinality({r \in DOMAIN runs : runs[r].idempotencyKey = Some(k)}) <= 1

\* what a snapshot row says, whatever transaction wrote it
SnapshotContent(s) == <<s.id, s.runId, s.executionStatus, s.runStatus, s.worker>>

\* C7: a snapshot that has been appended to a run's history stays in it
\* unchanged, also when the operation that appended it fails or rolls back
C7_SnapshotsAppendOnly ==
  [][\A r \in RunIds :
       /\ Len(snapshots'[r]) >= Len(snapshots[r])
       /\ \A i \in DOMAIN snapshots[r] :
            SnapshotContent(snapshots'[r][i]) = SnapshotContent(snapshots[r][i])]_vars

RunMutated(r) ==
  /\ snapshots[r] # <<>>
  /\ \/ snapshots'[r] # snapshots[r]
     \/ {x \in runWaitpoints' : x.taskRunId = r} # {x \in runWaitpoints : x.taskRunId = r}
     \/ r \in QueuedRuns' \ QueuedRuns
     \/ \E x \in runWaitpoints : x.taskRunId = r /\ waitpoints'[x.waitpointId].status # waitpoints[x.waitpointId].status

\* C9: every change of a run after its creation, and of the status of a
\* waitpoint that blocks it, is made while the lock on the run's id is held
C9_MutationsUnderLock ==
  [][\A r \in RunIds : RunMutated(r) => locks[r] # 0]_vars

\* C10: a run created with delayUntil is DELAYED, any other run is PENDING,
\* and its history holds exactly one RUN_CREATED snapshot, the first, whose
\* runStatus is that status
C10_InitialStatusAndSnapshot ==
  \A r \in DOMAIN runs :
    /\ runs[r].status = IF runs[r].delayUntil # None THEN "DELAYED" ELSE "PENDING"
    /\ Len(snapshots[r]) >= 1
    /\ snapshots[r][1].executionStatus = "RUN_CREATED"
    /\ snapshots[r][1].runStatus = runs[r].status
    /\ Cardinality({i \in DOMAIN snapshots[r] : snapshots[r][i].executionStatus = "RUN_CREATED"}) = 1

\* a delayed run and a run without delay have been triggered
C10_Witness ==
  /\ \E r \in DOMAIN runs : runs[r].delayUntil # None
  /\ \E r \in DOMAIN runs : runs[r].delayUntil = None /\ Len(snapshots[r]) > 1

\* the step is the last write of a trigger call of p that goes on to return
TriggerWritten(p) == pc[p] # "t_release" /\ pc'[p] = "t_release"

\* the executionStatus values in a run's history
StatusesOf(hist) == {hist[i].executionStatus : i \in DOMAIN hist}

C12_ParentBlockedByChild ==
  \A c \in DOMAIN runs :
    (runs[c].resumeParentOnCompletion /\ IsSome(runs[c].parentTaskRunId) /\ locks[c] = 0) =>
      LET parent == The(runs[c].parentTaskRunId)
      IN /\ \E x \in runWaitpoints :
              /\ x.taskRunId = parent
              /\ waitpoints[x.waitpointId].completedByTaskRunId = c
         /\ runs[parent].status = "WAITING_TO_RESUME"
         /\ "QUEUED" \in StatusesOf(snapshots[c])

\* the time a ttl of "1m" ends when counted from now
TtlEnd == The(ParseNaturalLanguageDuration("1m"))

\* C13: the expireRun job of a run triggered with a ttl is scheduled for
\* now + ttl, so it is not available before the ttl has elapsed
C13_ExpireJobAtTtl ==
  [][\A j \in jobs' \ jobs : j.job = "expireRun" => j.availableAt >= TtlEnd]_vars

\* the expireRun jobs whose handler the step has run
ExpiredJobs == {j \in jobs \ jobs' : j.job = "expireRun"}

\* a run's latest snapshot is one expire acts on
Expirable(r) ==
  /\ IsSome(GetLatestExecutionSnapshot(0, r))
  /\ The(GetLatestExecutionSnapshot(0, r)).executionStatus \in {"RUN_CREATED", "QUEUED", "BLOCKED_BY_WAITPOINTS"}

\* C14: expire on a run whose latest snapshot is RUN_CREATED, QUEUED or
\* BLOCKED_BY_WAITPOINTS makes the run EXPIRED and takes it off the run
\* queue; on any other latest snapshot it changes nothing
C14_ExpireTransitions ==
  [][\A j \in ExpiredJobs :
       IF Expirable(j.runId)
       THEN runs'[j.runId].status = "EXPIRED" /\ j.runId \notin QueuedRuns'
       ELSE UNCHANGED <<dbVars, rqVars>>]_vars

\* the run-associated waitpoint of run r
AssociatedWaitpoints(r) == {w \in DOMAIN waitpoints : waitpoints[w].type = "RUN" /\ waitpoints[w].completedByTaskRunId = r}

\* C15: when complete with ok = true has returned for a run that was
\* dequeued for execution, the run is COMPLETED_SUCCESSFULLY and its
\* run-associated waitpoint is COMPLETED
C15_CompleteFinishesRun ==
  \A p \in Procs :
    (/\ pc[p] = "returned"
     /\ call[p].op = "complete"
     /\ call[p].ok
     /\ "DEQUEUED_FOR_EXECUTION" \in StatusesOf(snapshots[call[p].run])) =>
      /\ runs[call[p].run].status = "COMPLETED_SUCCESSFULLY"
      /\ \A w \in AssociatedWaitpoints(call[p].run) : waitpoints[w].status = "COMPLETED"

\* the step is the body of a dequeueFromMasterQueue call of p that found
\* the run's latest snapshot QUEUED or BLOCKED_BY_WAITPOINTS
DequeueSucceeds(p) == pc[p] = "d_body" /\ pc'[p] = "d_return"

\* what dequeueFromMasterQueue writes on success: exactly one snapshot,
\* DEQUEUED_FOR_EXECUTION with the runStatus carried over, under the run's lock
DequeueAppends(p) ==
  LET r == call[p].run
      hist == snapshots[r]
  IN /\ locks[r] = p
     /\ Len(snapshots'[r]) = Len(hist) + 1
     /\ SubSeq(snapshots'[r], 1, Len(hist)) = hist
     /\ snapshots'[r][Len(hist) + 1].executionStatus = "DEQUEUED_FOR_EXECUTION"
     /\ snapshots'[r][Len(hist) + 1].runStatus = hist[Len(hist)].runStatus
     /\ \A o \in RunIds \ {r} : snapshots'[o] = snapshots[o]

\* what the claim has dequeueFromMasterQueue return: the message body
\* together with the id of the appended snapshot
DequeueReturnsMessage(p) ==
  LET r == call[p].run
      result == The(call'[p].result)
  IN /\ "message" \in DOMAIN result
     /\ "snapshotId" \in DOMAIN result
     /\ result.message = RunMessage(r, runs[r].queue)
     /\ result.snapshotId = snapshots'[r][Len(snapshots'[r])].id

\* C16: a dequeueFromMasterQueue that got a message for a run whose latest
\* snapshot is QUEUED or BLOCKED_BY_WAITPOINTS appends exactly one
\* DEQUEUED_FOR_EXECUTION snapshot under the run's lock and returns the
\* message body together with that snapshot's id; without a message it
\* appends no snapshot
C16_DequeueAppendsAndReturns ==
  [][/\ \A p \in Procs : DequeueSucceeds(p) => DequeueAppends(p) /\ DequeueReturnsMessage(p)
     /\ \A p \in Procs : (pc[p] = "idle" /\ pc'[p] = "idle") =>
          \A r \in RunIds : "DEQUEUED_FOR_EXECUTION" \in StatusesOf(snapshots'[r]) =>
                              "DEQUEUED_FOR_EXECUTION" \in StatusesOf(snapshots[r])]_vars

\* the step is the body of a dequeueFromMasterQueue call of p that found
\* no snapshot, or one the run cannot be dequeued from, and threw
DequeueFails(p) == pc[p] = "d_body" /\ pc'[p] \in {"idle", "tx_rollback"}

\* C17: when dequeueFromMasterQueue has taken a message and the run's
\* latest snapshot is missing or not QUEUED or BLOCKED_BY_WAITPOINTS, the
\* message is acknowledged or nacked, so it no longer holds an in-flight
\* entry
C17_FailedDequeueCompensated ==
  [][\A p \in Procs : DequeueFails(p) =>
       \A m \in rqInflight' : m.runId # call[p].run]_vars

\* the step is a trigger call that threw after taskRun.create
TriggerThrows == nextRunId' # nextRunId /\ \A p \in Procs : pc'[p] \notin {"t_block_self", "t_release"} \/ pc'[p] = pc[p]

\* C18: a trigger that fails after the run row has been created leaves
\* nothing behind: no run row, snapshot, waitpoint, TaskRunWaitpoint row,
\* delayed job or queue entry
C18_FailedTriggerLeavesNothing ==
  [][TriggerThrows =>
       /\ \A r \in DOMAIN runs' \ DOMAIN runs : ~Visible(runs'[r], 0)
       /\ \A r \in RunIds : \A i \in DOMAIN snapshots'[r] :
            i > Len(snapshots[r]) => ~Visible(snapshots'[r][i], 0)
       /\ \A w \in DOMAIN waitpoints' \ DOMAIN waitpoints : ~Visible(waitpoints'[w], 0)
       /\ \A x \in runWaitpoints' \ runWaitpoints : ~Visible(x, 0)
       /\ jobs' = jobs
       /\ rqQueue' = rqQueue]_vars

\* the startAndExecuteRunAttempt invocations that have not returned, each
\* with the executeRun and handleCompletionResult calls it awaits
AttemptsInFlight == {t \in controller.promises : t.kind = "attempt"}

\* C19: the runner has at most one attempt in flight: in every reachable
\* state at most one startAndExecuteRunAttempt/executeRun invocation and at
\* most one live child task process exist
C19_OneAttemptInFlight ==
  /\ Cardinality(AttemptsInFlight) <= 1
  /\ Cardinality(controller.processes) <= 1

\* the awaits inside handleSnapshotChange, past its lock check
LockedAwaits == HandlerAwaits \ {"getRunExecutionData"}

\* the handleSnapshotChange invocations past the lock check
InsideHandleSnapshotChange == Pending({"notify", "poll"}, LockedAwaits)

\* C20: reactions to snapshot changes are serialised: never are two
\* invocations of handleSnapshotChange past the lock check, and the lock is
\* held exactly while one is, so every exit path has released it
C20_SnapshotChangesSerialised ==
  Running =>
    /\ Cardinality(InsideHandleSnapshotChange) <= 1
    /\ controller.handleSnapshotChangeLock <=> InsideHandleSnapshotChange # {}

\* an earlier reaction is suspended at an await while a run:notify handler
\* and the poller both wait for the execution data they will hand to
\* handleSnapshotChange
C20_Witness ==
  /\ Running
  /\ controller.handleSnapshotChangeLock
  /\ InsideHandleSnapshotChange # {}
  /\ Pending({"notify"}, {"getRunExecutionData"}) # {}
  /\ Pending({"poll"}, {"getRunExecutionData"}) # {}

\* the handlers that wait for the execution data of their run
Fetching == Pending({"notify", "poll"}, {"getRunExecutionData"})

\* the step in which handler t hands data to handleSnapshotChange and
\* passes the lock check
Reacts(t, data) ==
  /\ ~controller.handleSnapshotChangeLock
  /\ controller' = HandleSnapshotChange(Settle(controller, t), t, data)

\* the platform reports, to a runner that holds a run, a new snapshot of
\* another run or with another attempt number
Mismatching(data) ==
  /\ controller.phase = "RUN"
  /\ controller.snapshot # data.snapshot
  /\ data.run # controller.run \/ data.attemptNumber # controller.attemptNumber

\* the runner has given up its attempt: warm start, no held run or snapshot,
\* the child process gone, the long poll under way, no reaction in progress
Abandoned ==
  /\ controller.phase = "WARM_START"
  /\ controller.run = 0 /\ controller.snapshot = NoSnapshot
  /\ controller.taskRunProcess \notin controller.processes
  /\ Pending({"waitForNextRun"}, {"longPoll"}) # {}
  /\ InsideHandleSnapshotChange = {}

\* C21: a new snapshot with another attempt number, or of another run, is
\* fatal: no per-status reaction, the attempt is abandoned, the runner
\* returns to warm start and never takes over the mismatching values
C21_MismatchIsFatal ==
  [][\A t \in Fetching : \A data \in ExecutionDataOf(t.run) :
       Mismatching(data) /\ Reacts(t, data) => Abandoned']_vars

\* the platform reports, to a runner that holds the run, a new snapshot of
\* that run in the given status
Observes(data, executionStatus) ==
  /\ controller.phase = "RUN"
  /\ data.run = controller.run
  /\ data.snapshot # controller.snapshot
  /\ data.executionStatus = executionStatus

\* C22: on a new snapshot of its run in status SUSPENDED the runner kills
\* the child process, leaves RUN for WARM_START, which stops the heartbeat
\* and the snapshot poller, and long-polls for the next run
C22_SuspendedToWarmStart ==
  [][\A t \in Fetching : \A data \in ExecutionDataOf(t.run) :
       Observes(data, "SUSPENDED") /\ Reacts(t, data) =>
         (Abandoned /\ ~controller.runHeartbeat /\ ~controller.snapshotPoller)']_vars

\* the attempts that wait for the platform's answer to their completion
Completing == Pending({"attempt"}, {"completeRunAttempt", "completeAfterError"})

\* the step in which the platform's answer to the completion of attempt t
\* is handed to handleCompletionResult
Accepted(t, attemptStatus, attemptNumber, snapshot) ==
  controller' = HandleCompletionResult(Settle(controller, t), t, attemptStatus, attemptNumber, snapshot)

\* the runner long-polls for its next run
WarmStarting == Pending({"waitForNextRun"}, {"longPoll"}) # {}

\* the runner sleeps for the retry delay before the next attempt of the run
Retrying(run) == \E t \in Pending({"attempt"}, {"retrySleep"}) : t.run = run

\* C23: after an accepted completion the runner goes to warm start and
\* long-polls, or begins a new attempt, whatever the attemptStatus:
\* RUN_FINISHED and RETRY_QUEUED lead to warm start, RETRY_IMMEDIATELY,
\* for a completion with retry parameters, to the retry delay and a new
\* attempt of the same run
C23_CompletionLeadsOn ==
  [][\A t \in Completing : \A attemptStatus \in AttemptStatuses, attemptNumber \in AttemptNumbers :
       \A snapshot \in SnapshotsOf(t.run) :
         Accepted(t, attemptStatus, attemptNumber, snapshot) =>
           /\ WarmStarting' \/ Retrying(t.run)'
           /\ attemptStatus \in {"RUN_FINISHED", "RETRY_QUEUED"} => WarmStarting'
           /\ attemptStatus = "RETRY_IMMEDIATELY" /\ t.completion = "retry" =>
                WarmStarting' \/ Retrying(t.run)']_vars

\* the waitForNextRun call that is under way
LongPolling == Pending({"waitForNextRun"}, {"longPoll"})

\* the step in which the waitForNextRun call ends
WaitForNextRunEnds == LongPolling # {} /\ LongPolling' = {}

\* C24: waitForNextRun ends: its long poll sends another fetch only while the
\* total duration has not elapsed, the call ends either by starting an
\* attempt, with its lock released, or by exiting the process, and no child
\* process is alive when it starts the attempt
C24_WaitForNextRunEnds ==
  [][/\ \A t \in LongPolling' : t.elapsed < TotalDuration
     /\ WaitForNextRunEnds =>
          \/ controller'.life = "exited"
          \/ /\ controller'.attempts = controller.attempts + 1
             /\ ~controller'.waitForNextRunLock
             /\ controller.processes = {}]_vars

\* C25 as stated: the run heartbeat and the snapshot poller are active
\* exactly while the controller is in phase RUN
C25_ActiveExactlyInRun ==
  Running =>
    /\ controller.runHeartbeat <=> controller.phase = "RUN"
    /\ controller.snapshotPoller <=> controller.phase = "RUN"

\* C25: the run heartbeat and the snapshot poller are active only while the
\* controller is in phase RUN, never in IDLE or WARM_START, and in phase RUN
\* both are active until stop has stopped them and closed the socket
C25_ActiveOnlyInRun ==
  Running =>
    /\ controller.runHeartbeat \/ controller.snapshotPoller => controller.phase = "RUN"
    /\ controller.phase = "RUN" /\ controller.socket =>
         controller.runHeartbeat /\ controller.snapshotPoller

\* the runner has left a run, whose child process it had spawned, for warm
\* start, and neither service is active
C25_Witness ==
  /\ Running
  /\ controller.phase = "WARM_START"
  /\ controller.taskRunProcess # 0
  /\ ~controller.runHeartbeat /\ ~controller.snapshotPoller

\* C26: for every environment, queue name and optional concurrency key, each
\* key derived from the queue key alone equals the key built from the parts:
\* the current-concurrency key of the queue, the concurrency-limit key of the
\* queue, and the concurrency-limit and current-concurrency keys of the
\* environment.
C26_DerivedKeysAgree ==
  /\ producer.called = "currentConcurrencyKeyFromQueue" =>
       producer.returned = currentConcurrencyKey(producer.env, producer.queue, producer.concurrencyKey)
  /\ producer.called = "concurrencyLimitKeyFromQueue" =>
       producer.returned = queueConcurrencyLimitKey(producer.env, producer.queue)
  /\ producer.called = "envConcurrencyLimitKeyFromQueue" =>
       producer.returned = envConcurrencyLimitKey(producer.env)
  /\ producer.called = "envCurrentConcurrencyKeyFromQueue" =>
       producer.returned = envCurrentConcurrencyKey(producer.env)

\* the delay the stall check of a snapshot is due after: 15 minutes for
\* EXECUTING, one minute for the other statuses
StallCheckDelay(executionStatus) ==
  IF executionStatus = "EXECUTING" THEN intervalExecuting ELSE intervalQueued

\* the heartbeatSnapshot jobs scheduled for snapshot n of run r
StallChecks(js, r, n) == {j \in js : j.job = "heartbeatSnapshot" /\ j.runId = r /\ j.snapshotId = n}

\* the snapshots of run r the step appends
Appended(r) == {n \in 1..Len(snapshots'[r]) : n > Len(snapshots[r])}

\* C27: every snapshot appended to a run, the initial RUN_CREATED snapshot of
\* trigger included, schedules exactly one heartbeatSnapshot job with the id
\* of that snapshot, due one minute later, or 15 minutes later for EXECUTING.
C27_EverySnapshotSchedulesStallCheck ==
  [][\A r \in RunIds : \A n \in Appended(r) :
       /\ Cardinality(StallChecks(jobs', r, n)) = 1
       /\ \A j \in StallChecks(jobs', r, n) :
            j.availableAt = now + StallCheckDelay(snapshots'[r][n].executionStatus)]_vars

\* caller p runs the heartbeatSnapshot handler in this step
HandlesStallCheck(p) == pc[p] = "idle" /\ pc'[p] = "returned" /\ call'[p].op = "handleStalledSnapshot"

\* the stall check caller p has run was scheduled for a snapshot that is no
\* longer the latest one of its run
StaleStallCheck(p) ==
  LET latestSnapshot == GetLatestExecutionSnapshot(0, call'[p].run)
  IN  IsSome(latestSnapshot) /\ Some(The(latestSnapshot).id) # call'[p].result

\* C28: a heartbeatSnapshot job that fires for a snapshot id that is no longer
\* the latest snapshot of its run is dropped silently: the handler raises no
\* error, the job is acknowledged, and the run's status, its snapshots, the
\* waitpoints and the queue state are unchanged.
C28_StaleStallCheckDropped ==
  [][\A p \in Procs : HandlesStallCheck(p) /\ StaleStallCheck(p) =>
       /\ call'[p].ok
       /\ StallChecks(jobs', call'[p].run, The(call'[p].result)) = {}
       /\ UNCHANGED <<runs, snapshots, waitpoints, runWaitpoints, rqVars>>]_vars

\* caller p's #completeWaitpoint call ends in this step
CompleteWaitpointEnds(p) == call[p].op = "completeWaitpoint" /\ pc[p] # "idle" /\ pc'[p] = "idle"

\* C30: #completeWaitpoint(w) on a PENDING waitpoint always ends with w
\* COMPLETED and with no TaskRunWaitpoint row that references w, whatever the
\* number of runs blocked on w, none included.
C30_CompleteWaitpointCompletes ==
  [][\A p \in Procs : CompleteWaitpointEnds(p) =>
       /\ waitpoints'[call[p].waitpoint].status = "COMPLETED"
       /\ \A x \in runWaitpoints' : x.waitpointId # call[p].waitpoint]_vars

\* caller p's #completeWaitpoint runs its steps 4 and 5 in this step
ResumesRuns(p) == pc[p] = "cw_resume" /\ pc'[p] # "cw_resume"

\* the step calls #continueRun for run r: the stall check of its next snapshot is scheduled
ContinueRunCalled(r) ==
  StallChecks(jobs', r, Len(snapshots[r]) + 1) # StallChecks(jobs, r, Len(snapshots[r]) + 1)

\* run r was blocked by the waitpoint of caller p, has no TaskRunWaitpoint row
\* left once the rows of that waitpoint are deleted, and can be resumed
ToBeContinued(p, r) ==
  /\ r \in call[p].affected
  /\ \A x \in runWaitpoints \ call[p].deleted : x.tx = 0 => x.taskRunId # r
  /\ runs[r].status \in {"PENDING", "WAITING_TO_RESUME"}

C33_QueueLimitReflectsOptions ==
  [][\A p \in Procs : \A a \in TriggerParams :
       (TriggerStart(p, a) /\ IsSome(a.queue) /\ pc'[p] \in {"t_block_self", "t_release"}) =>
         /\ taskQueues'[a.queueName] = Some(ClampConcurrencyLimit(The(a.queue)))
         /\ rqLimits'[a.queueName] = ClampConcurrencyLimit(The(a.queue))]_vars

\* the number of times run r has been continued since it last executed or
\* was blocked: the QUEUED snapshots after that snapshot
Continuations(hist) ==
  LET held == {i \in DOMAIN hist : hist[i].executionStatus \in {"EXECUTING", "BLOCKED_BY_WAITPOINTS"}}
  IN Cardinality({i \in DOMAIN hist : /\ hist[i].executionStatus = "QUEUED"
                                      /\ \A h \in held : h < i})

\* the step commits the transaction of caller p's #completeWaitpoint
CommitsWaitpoint(p) == pc[p] = "cw_commit" /\ pc'[p] # "cw_commit"

DequeueReads(p) == pc[p] = "d_body" /\ pc'[p] # "d_body"

\* C36: whenever dequeueFromMasterQueue has obtained a message for a run, the
\* latest snapshot of that run the dequeuer reads is QUEUED or
\* BLOCKED_BY_WAITPOINTS, also when the run was enqueued inside a database
\* transaction that has not committed when the run's lock is released.
C36_DequeuerReadsQueued ==
  [][\A p \in Procs : DequeueReads(p) =>
       LET snapshot == GetLatestExecutionSnapshot(Client(p, call[p].tx), call[p].run)
       IN IsSome(snapshot) /\ CanBeDequeued(The(snapshot))]_vars

\* C37: a run triggered with delayUntil is enqueued once its delay is over:
\* when the #completeWaitpoint call for its DATETIME waitpoint has committed
\* and no TaskRunWaitpoint row blocks the run any more, the run has a QUEUED
\* snapshot and an entry in the run queue, waiting or in flight.
C37_DelayedRunEnqueued ==
  [][\A p \in Procs : CommitsWaitpoint(p) =>
       \A r \in call[p].affected :
         (/\ runs[r].delayUntil # None
          /\ \A x \in runWaitpoints' : x.taskRunId # r) =>
           /\ "QUEUED" \in StatusesOf(snapshots'[r])
           /\ \/ \E i \in DOMAIN rqQueue' : rqQueue'[i].runId = r
              \/ \E m \in rqInflight' : m.runId = r]_vars

\* the requests in flight whose run and snapshot ids are arguments of the
\* call: attempts/start, the error-path complete, and continue
RequestsInFlight ==
  Pending({"attempt"}, {"startRunAttempt", "completeAfterError"})
    \cup Pending({"notify", "poll"}, {"continueRunExecution"})

\* C38: every request of the runner that names a run and a snapshot pairs
\* the run with a snapshot the platform issued for that run: the requests
\* that take both from their arguments, and those (heartbeat, complete,
\* wait/duration) that take both from this.state.
C38_RequestsPairRunWithItsSnapshot ==
  /\ \A t \in RequestsInFlight : t.snapshot[1] = t.run
  /\ controller.phase = "RUN" => controller.snapshot[1] = controller.run

\* C39: the runner is subscribed to the notifications of at most one run at
\* a time: when it emits run:start for a run, every run:start it emitted for
\* another run has been followed by a run:stop for that run, also when
\* startRunAttempt failed and the runner went back to its warm start.
C39_SubscribedToOneRun == Cardinality(controller.subscribed) <= 1

\* C40: once SupervisorSession.stop() has returned, everything start()
\* started is stopped: the queue consumer sends no further dequeue, no
\* further runQueueMessage event is emitted, no worker heartbeat is sent and
\* the socket is disconnected.
C40_StopStopsEverything ==
  [][session.life = "stopped" =>
       /\ session'.dequeues = session.dequeues
       /\ session'.runQueueMessages = session.runQueueMessages
       /\ session'.heartbeats = session.heartbeats
       /\ session.socket = "disconnected"]_vars

====
